---- MODULE Spec2Model ----
(***************************************************************************)
(* Model of the Cyberpunk 2077 Vortex extension's installer pipeline       *)
(* (src/src/installers.ts, src/src/installer.redscript.ts and the REDmod   *)
(* autoconversion of src/unnamed/part_002).                                *)
(*                                                                         *)
(* A path is the sequence of its segments, i.e. the string split at the    *)
(* win32 separator "\": "r6\scripts\a.reds" is <<"r6","scripts","a.reds">> *)
(* and a directory entry "sub\" (a path ending in the separator) is        *)
(* <<"sub", "">>.  A file list is a sequence of paths.                     *)
(***************************************************************************)
EXTENDS Naturals, Sequences, FiniteSets, Bags, TLC

\* Longest input file list.
MaxFiles == 3

(***************************************************************************)
(* Constants of the program                                                *)
(***************************************************************************)
GAME_ID == "cyberpunk2077"

CET_MOD_CANONICAL_INIT_FILE == "init.lua"
CET_MOD_CANONICAL_PATH_PREFIX == <<"bin", "x64", "plugins", "cyber_engine_tweaks", "mods">>

REDS_MOD_CANONICAL_EXTENSION == ".reds"
REDS_MOD_CANONICAL_PATH_PREFIX == <<"r6", "scripts">>

ARCHIVE_ONLY_CANONICAL_EXT == ".archive"
\* path.normalize("archive/pc/mod/") keeps the trailing separator
ARCHIVE_ONLY_CANONICAL_PREFIX == <<"archive", "pc", "mod", "">>
ARCHIVE_ONLY_TRADITIONAL_WRONG_PREFIX == <<"archive", "pc", "patch", "">>

MOD_FILE_EXT == ".archive"
INI_MOD_PATH == <<"engine", "config", "platform", "pc">>
INI_MOD_EXT == ".ini"
RESHADE_MOD_PATH == <<"bin", "x64">>
SHADERS_DIR == "reshade-shaders"
CET_GLOBAL_INI == <<"bin", "x64", "global.ini">>
JSON_FILE_EXT == ".json"

PRIORITY_STARTING_NUMBER == 30

FILETREE_ROOT == <<>>

(***************************************************************************)
(* Node's path.win32 on segment sequences                                  *)
(***************************************************************************)
Range(s) == {s[i] : i \in 1..Len(s)}

IsNonEmptySegment(s) == s # ""

IsRealSegment(s) == s \notin {"", "."}

\* the segments of a path without the empty ones a trailing or doubled
\* separator leaves
NonEmpty(p) == SelectSeq(p, IsNonEmptySegment)

\* String.prototype.endsWith(path.sep)
endsWithSep(p) == Len(p) > 0 /\ p[Len(p)] = ""

\* path.basename: the last segment, trailing separators ignored
basename(p) ==
  LET q == NonEmpty(p) IN IF q = <<>> THEN "" ELSE q[Len(q)]

\* path.dirname: everything before the last segment, "." when there is none
dirname(p) ==
  LET q == NonEmpty(p) IN IF Len(q) <= 1 THEN <<".">> ELSE SubSeq(q, 1, Len(q) - 1)

\* path.join / path.normalize: empty and "." segments vanish, a trailing
\* separator of the last argument survives
join(a, b) ==
  LET q == SelectSeq(a \o b, IsRealSegment)
  IN  IF endsWithSep(b) \/ (b = <<>> /\ endsWithSep(a)) THEN Append(q, "") ELSE q

\* The file names of the model and what path.extname returns for them.
\* path.extname is the text from the last "." of the basename on.
ExtensionOf ==
  [n \in {"a.reds"} |-> ".reds"] @@
  [n \in {"x.archive", "Foo.archive", "y.archive", "foo.archive"} |-> ".archive"] @@
  [n \in {"Y.ARCHIVE"} |-> ".ARCHIVE"] @@
  [n \in {"init.lua"} |-> ".lua"] @@
  [n \in {"a.ini", "global.ini"} |-> ".ini"] @@
  [n \in {"giweights.json", "bumpersSettings.json", "bumperssettings.json",
          "options.json", "other.json", "info.json"} |-> ".json"] @@
  [n \in {"readme.txt"} |-> ".txt"] @@
  [n \in {"s.wav"} |-> ".wav"] @@
  [n \in {"a.script"} |-> ".script"] @@
  [n \in {"t.tweak"} |-> ".tweak"] @@
  [n \in {"scc.exe", "WolvenKit.CLI.exe", "wolvenkit.cli.exe"} |-> ".exe"] @@
  [n \in {"RED4ext.dll", "red4ext.dll"} |-> ".dll"] @@
  [n \in {"CSVMerge.cmd", "csvmerge.cmd"} |-> ".cmd"] @@
  [n \in {"MyMod.installing", "M.installing",
          "mymod.installing", "m.installing"} |-> ".installing"]

extname(p) ==
  LET b == basename(p) IN IF b \in DOMAIN ExtensionOf THEN ExtensionOf[b] ELSE ""

\* The names and extensions of the model with an upper-case letter, and
\* their lower-case forms; every other name of the model is in lower case.
LowerOf ==
  [n \in {".ARCHIVE"} |-> ".archive"] @@
  [n \in {"Y.ARCHIVE"} |-> "y.archive"] @@
  [n \in {"Foo.archive"} |-> "foo.archive"] @@
  [n \in {"bumpersSettings.json"} |-> "bumperssettings.json"] @@
  [n \in {"customSounds"} |-> "customsounds"] @@
  [n \in {"M"} |-> "m"] @@
  [n \in {"N"} |-> "n"] @@
  [n \in {"R"} |-> "r"] @@
  [n \in {"X"} |-> "x"] @@
  [n \in {"X_autoconverted"} |-> "x_autoconverted"] @@
  [n \in {"MyMod"} |-> "mymod"] @@
  [n \in {"MyMod.installing"} |-> "mymod.installing"] @@
  [n \in {"M.installing"} |-> "m.installing"] @@
  [n \in {"WolvenKit.CLI.exe"} |-> "wolvenkit.cli.exe"] @@
  [n \in {"RED4ext.dll"} |-> "red4ext.dll"] @@
  [n \in {"CSVMerge.cmd"} |-> "csvmerge.cmd"]

\* String.prototype.toLowerCase on the names and extensions of the model
toLowerCase(s) == IF s \in DOMAIN LowerOf THEN LowerOf[s] ELSE s

\* a is a prefix of b, segment by segment
IsPrefix(a, b) == Len(a) <= Len(b) /\ SubSeq(b, 1, Len(a)) = a

\* String.prototype.startsWith on the joined strings, for arguments without
\* a trailing separator: b = a, or b continues a (also in the middle of a
\* segment name, which no name of the model does)
startsWith(b, a) == IsPrefix(a, b)

Concat(ss) ==
  LET RECURSIVE cat(_)
      cat(k) == IF k = 0 THEN <<>> ELSE cat(k - 1) \o ss[k]
  IN  cat(Len(ss))

(***************************************************************************)
(* KeyTree (npm key-tree) as the installers use it.  A tree is the         *)
(* sequence of its add(key, value) calls, ents[i] = [key, value]; keys are *)
(* split at the separator, so the key of a directory entry ends in an      *)
(* empty segment.                                                          *)
(***************************************************************************)
\* files.forEach((file) => fileTree.add(file, file))
treeByPath(files) == [i \in 1..Len(files) |-> [key |-> files[i], value |-> files[i]]]

\* files.forEach((file) => fileTree.add(path.dirname(file), file))
treeByDirname(files) ==
  [i \in 1..Len(files) |-> [key |-> dirname(files[i]), value |-> files[i]]]

\* _getNode(key) finds a node: some added key passes through it
hasNode(ents, n) == \E i \in 1..Len(ents) : IsPrefix(n, ents[i].key)

\* node.children, as keys, in the order the children were created
childKeys(ents, n) ==
  LET RECURSIVE upTo(_)
      upTo(k) ==
        IF k = 0 THEN <<>>
        ELSE LET prev == upTo(k - 1)
                 key == ents[k].key
             IN  IF /\ IsPrefix(n, key)
                    /\ Len(key) > Len(n)
                    /\ key[Len(n) + 1] \notin Range(prev)
                 THEN Append(prev, key[Len(n) + 1])
                 ELSE prev
  IN  upTo(Len(ents))

\* the values added under exactly this key
valuesAt(ents, n) ==
  LET RECURSIVE upTo(_)
      upTo(k) ==
        IF k = 0 THEN <<>>
        ELSE IF ents[k].key = n THEN Append(upTo(k - 1), ents[k].value)
             ELSE upTo(k - 1)
  IN  upTo(Len(ents))

\* KeyTree.get(key): the values of the node, none when there is no node
get(ents, n) == valuesAt(ents, n)

\* KeyTree.getSub(key): the values of the node and of every node below it,
\* parents before children, children in creation order
RECURSIVE getSub(_, _)
getSub(ents, n) ==
  LET kids == childKeys(ents, n)
  IN  valuesAt(ents, n) \o Concat([i \in 1..Len(kids) |-> getSub(ents, Append(n, kids[i]))])

(***************************************************************************)
(* Instructions                                                            *)
(***************************************************************************)
copy(src, dst) == [type |-> "copy", source |-> src, destination |-> dst]

toSamePath(f) == <<f, f>>

toDirInPath(prefixPath, dir, f) == <<f, join(join(prefixPath, <<dir>>), <<basename(f)>>)>>

IsRegularFilePair(pair) == ~endsWithSep(pair[1])

PairToCopy(pair) == copy(pair[1], pair[2])

\* one copy instruction per pair up to the first folder
instructionsUpToFirstFolder(srcAndDestPairs) ==
  LET folders == {i \in 1..Len(srcAndDestPairs) : endsWithSep(srcAndDestPairs[i][1])}
      stop == IF folders = {} THEN Len(srcAndDestPairs) + 1
              ELSE CHOOSE i \in folders : \A j \in folders : i <= j
  IN  [i \in 1..(stop - 1) |-> copy(srcAndDestPairs[i][1], srcAndDestPairs[i][2])]

\* drops the folders, then one copy instruction per pair
instructionsForSourceToDestPairs(srcAndDestPairs) ==
  LET justTheRegularFiles == SelectSeq(srcAndDestPairs, IsRegularFilePair)
  IN  [i \in 1..Len(justTheRegularFiles) |-> PairToCopy(justTheRegularFiles[i])]

\* files.map(toSamePath)
ToSamePath(files) == [i \in 1..Len(files) |-> toSamePath(files[i])]

instructionsForSameSourceAndDestPaths(files) ==
  instructionsForSourceToDestPairs(ToSamePath(files))

matchRedscript(file) == extname(file) = REDS_MOD_CANONICAL_EXTENSION

allRedscriptFiles(files) == SelectSeq(files, matchRedscript)

matchArchive(file) == extname(file) = ARCHIVE_ONLY_CANONICAL_EXT

allFilesInFolder(folder, files) ==
  LET fileTree == treeByPath(files)
  IN  IF ~hasNode(fileTree, folder) THEN <<>>
      ELSE getSub(fileTree, NonEmpty(folder))

allCanonicalCetFiles(files) == allFilesInFolder(CET_MOD_CANONICAL_PATH_PREFIX, files)

allCanonicalArchiveOnlyFiles(files) == allFilesInFolder(ARCHIVE_ONLY_CANONICAL_PREFIX, files)

\* path.basename(name, ".installing") on the directory names of the model:
\* the suffix is cut off when the name ends in it
stripInstalling(name) ==
  CASE name = "MyMod.installing" -> "MyMod"
    [] name = "M.installing" -> "M"
    [] OTHER -> name

\* a mod name that keeps the suffix of the staging directory
makeModNameWithSuffix(vortexDestinationPath) == basename(vortexDestinationPath)

makeModName(vortexDestinationPath) == stripInstalling(basename(vortexDestinationPath))

(***************************************************************************)
(* What a detector and an installer hand back.  A promise either resolves  *)
(* or rejects; a function that throws before it returns its promise is     *)
(* recorded as "threw".                                                    *)
(***************************************************************************)
Supported(b) == [outcome |-> "resolved", supported |-> b, error |-> ""]

TestRejected(message) == [outcome |-> "rejected", supported |-> FALSE, error |-> message]

Resolved(instructions, dialogs) ==
  [status |-> "resolved", instructions |-> instructions, error |-> "", dialogs |-> dialogs]

Rejected(message, dialogs) ==
  [status |-> "rejected", instructions |-> <<>>, error |-> message, dialogs |-> dialogs]

Threw(message) ==
  [status |-> "threw", instructions |-> <<>>, error |-> message, dialogs |-> {}]

(***************************************************************************)
(* Red + CET mixed                                                         *)
(***************************************************************************)
\* moddir.children.some((child) => child.getChild("init.lua") !== null)
hasCetFilesInANamedModDir(fileTree) ==
  \E c \in Range(childKeys(fileTree, CET_MOD_CANONICAL_PATH_PREFIX)) :
    hasNode(fileTree, CET_MOD_CANONICAL_PATH_PREFIX \o <<c, CET_MOD_CANONICAL_INIT_FILE>>)

\* a mixed detector that takes every CET mod, with or without scripts
testForRedCetMixedModWithoutReds(files, gameId) ==
  LET fileTree == treeByPath(files)
  IN  IF \/ ~hasNode(fileTree, CET_MOD_CANONICAL_PATH_PREFIX)
         \/ childKeys(fileTree, CET_MOD_CANONICAL_PATH_PREFIX) = <<>>
      THEN Supported(FALSE)
      ELSE Supported(hasCetFilesInANamedModDir(fileTree))

testForRedCetMixedMod(files, gameId) ==
  LET fileTree == treeByPath(files)
  IN  IF \/ ~hasNode(fileTree, CET_MOD_CANONICAL_PATH_PREFIX)
         \/ childKeys(fileTree, CET_MOD_CANONICAL_PATH_PREFIX) = <<>>
      THEN Supported(FALSE)
      ELSE IF hasCetFilesInANamedModDir(fileTree) /\ allRedscriptFiles(files) = <<>>
           THEN Supported(FALSE)
           ELSE Supported(hasCetFilesInANamedModDir(fileTree))

\* base && base.children.length === 1 ? fileTree.getSub(join(prefix, only child)) : []
canonRedsModFilesOf(fileTree) ==
  LET kids == childKeys(fileTree, REDS_MOD_CANONICAL_PATH_PREFIX)
  IN  IF hasNode(fileTree, REDS_MOD_CANONICAL_PATH_PREFIX) /\ Len(kids) = 1
      THEN getSub(fileTree, join(REDS_MOD_CANONICAL_PATH_PREFIX, <<kids[1]>>))
      ELSE <<>>

ToRedsDir(modName, files) ==
  [i \in 1..Len(files) |-> toDirInPath(REDS_MOD_CANONICAL_PATH_PREFIX, modName, files[i])]

installRedCetMixedMod(files, destinationPath) ==
  LET fileTree == treeByDirname(files)
      topLevelReds == SelectSeq(get(fileTree, <<".">>), matchRedscript)
      redsDirReds == SelectSeq(get(fileTree, REDS_MOD_CANONICAL_PATH_PREFIX), matchRedscript)
      canonRedsModFiles == canonRedsModFilesOf(fileTree)
      cetFiles == allCanonicalCetFiles(files)
      installableReds == SelectSeq(<<canonRedsModFiles, redsDirReds>>, LAMBDA l : Len(l) > 0)
      cetDirs == childKeys(fileTree, CET_MOD_CANONICAL_PATH_PREFIX)
      archiveOnlyFiles == allCanonicalArchiveOnlyFiles(files)
  IN  IF Len(topLevelReds) > 0
      THEN Rejected("The reds are not correctly structured, installing through vortex isn't possible.",
                    {"redCetMixedStructureErrorDialog"})
      ELSE IF Len(cetFiles) = 0
      THEN Rejected("Red + CET install but no CET files, should never get here", {})
      ELSE IF Len(installableReds) = 0
      THEN Rejected("No Redscript found, should never get here.", {})
      ELSE IF Len(installableReds) > 1
      THEN Rejected("Conflicting Redscript locations, bailing out!",
                    {"redWithInvalidFilesErrorDialog"})
      ELSE IF ~hasNode(fileTree, CET_MOD_CANONICAL_PATH_PREFIX) \/ cetDirs = <<>>
      \* moddir.children[0].key of a missing node or of no child
      THEN Threw("TypeError")
      ELSE Resolved(
             Concat(<<instructionsForSourceToDestPairs(ToSamePath(canonRedsModFiles)),
                      instructionsForSourceToDestPairs(ToRedsDir(cetDirs[1], redsDirReds)),
                      instructionsForSourceToDestPairs(ToSamePath(cetFiles)),
                      instructionsForSourceToDestPairs(ToSamePath(archiveOnlyFiles))>>),
             {})

(***************************************************************************)
(* CET                                                                     *)
(***************************************************************************)
testForCetMod(files, gameId) ==
  LET fileTree == treeByPath(files)
  IN  IF \/ ~hasNode(fileTree, CET_MOD_CANONICAL_PATH_PREFIX)
         \/ childKeys(fileTree, CET_MOD_CANONICAL_PATH_PREFIX) = <<>>
      THEN Supported(FALSE)
      ELSE Supported(hasCetFilesInANamedModDir(fileTree))

\* a CET install that leaves the archives behind
installCetModCetOnly(files, destinationPath) ==
  LET cetFiles == allCanonicalCetFiles(files)
  IN  IF Len(cetFiles) = 0
      THEN Rejected("CET install but no CET files, should never get here", {})
      ELSE Resolved(instructionsForSameSourceAndDestPaths(cetFiles), {})

installCetMod(files, destinationPath) ==
  LET cetFiles == allCanonicalCetFiles(files)
      archiveOnlyFiles == allCanonicalArchiveOnlyFiles(files)
  IN  IF Len(cetFiles) = 0
      THEN Rejected("CET install but no CET files, should never get here", {})
      ELSE Resolved(instructionsForSameSourceAndDestPaths(cetFiles \o archiveOnlyFiles), {})

(***************************************************************************)
(* Redscript (installers.ts)                                               *)
(***************************************************************************)
testForRedscriptMod(files, gameId) ==
  IF Len(allRedscriptFiles(files)) = 0 THEN Supported(FALSE) ELSE Supported(TRUE)

installRedscriptMod(files, destinationPath) ==
  LET fileTree == treeByDirname(files)
      topLevelReds == SelectSeq(get(fileTree, <<".">>), matchRedscript)
      redsDirReds == SelectSeq(get(fileTree, REDS_MOD_CANONICAL_PATH_PREFIX), matchRedscript)
      canonRedsModFiles == canonRedsModFilesOf(fileTree)
      installable ==
        SelectSeq(<<canonRedsModFiles, redsDirReds, topLevelReds>>, LAMBDA l : Len(l) > 0)
      modName == makeModName(destinationPath)
      archiveOnlyFiles == allCanonicalArchiveOnlyFiles(files)
  IN  IF Len(installable) = 0
      THEN Rejected("No Redscript found, should never get here.", {})
      ELSE IF Len(installable) > 1
      THEN Rejected("Conflicting Redscript locations, bailing out!", {"showDialog"})
      ELSE Resolved(
             Concat(<<instructionsForSourceToDestPairs(ToSamePath(canonRedsModFiles)),
                      instructionsForSourceToDestPairs(ToRedsDir(modName, redsDirReds)),
                      instructionsForSourceToDestPairs(ToRedsDir(modName, topLevelReds)),
                      instructionsForSourceToDestPairs(ToSamePath(archiveOnlyFiles))>>),
             {})

(***************************************************************************)
(* FileTree queries (./filetree).  The tree of a file list is a read-only  *)
(* view of the list, so the queries are written over the list.             *)
(***************************************************************************)
fileTreeFromPaths(paths) == paths

\* f lies in dir or in a directory below it
IsUnder(dir, f) == Len(NonEmpty(f)) > Len(NonEmpty(dir)) /\ IsPrefix(NonEmpty(dir), NonEmpty(f))

\* f lies directly in dir
IsIn(dir, f) == Len(NonEmpty(f)) = Len(NonEmpty(dir)) + 1 /\ IsPrefix(NonEmpty(dir), NonEmpty(f))

\* the directory a file lies in, the root being <<>>
parentDir(f) == SubSeq(NonEmpty(f), 1, Len(NonEmpty(f)) - 1)

\* filesUnder(dir, tree): transitively, without the directory markers
filesUnder(dir, fileTree) ==
  SelectSeq(fileTree, LAMBDA f : IsUnder(dir, f) /\ ~endsWithSep(f))

REDMOD_BASEDIR == <<"mods">>

REDMOD_INFO_FILENAME == <<"info.json">>

\* the directories of a REDmod, one for each kind of content
REDMOD_SUBTYPE_DIRNAMES == {"archives", "customSounds", "scripts", "tweaks"}

REDMOD_ARCHIVES_VALID_EXTENSIONS == {".archive", ".xl"}

matchREDmodInfoJson(p) == <<basename(p)>> = REDMOD_INFO_FILENAME

matchREDmodArchive(p) == toLowerCase(extname(p)) \in REDMOD_ARCHIVES_VALID_EXTENSIONS

\* the filters the queries are called with, by name
Matches(filter, f) ==
  CASE filter = "matchRedscript" -> matchRedscript(f)
    [] filter = "matchArchive" -> matchArchive(f)
    [] filter = "matchREDmodArchive" -> matchREDmodArchive(f)
    [] filter = "matchREDmodInfoJson" -> matchREDmodInfoJson(f)
    [] filter = "Glob.Any" -> TRUE

\* filesIn(dir, filter, tree): one level
filesIn(dir, filter, fileTree) ==
  SelectSeq(fileTree, LAMBDA f : IsIn(dir, f) /\ ~endsWithSep(f) /\ Matches(filter, f))

dirWithSomeUnder(dir, filter, fileTree) ==
  \E i \in 1..Len(fileTree) :
    IsUnder(dir, fileTree[i]) /\ ~endsWithSep(fileTree[i]) /\ Matches(filter, fileTree[i])

dirWithSomeIn(dir, filter, fileTree) ==
  \E i \in 1..Len(fileTree) :
    IsIn(dir, fileTree[i]) /\ ~endsWithSep(fileTree[i]) /\ Matches(filter, fileTree[i])

\* the sequence without repetitions, first occurrences kept
Distinct(s) ==
  LET RECURSIVE upTo(_)
      upTo(k) ==
        IF k = 0 THEN <<>>
        ELSE LET prev == upTo(k - 1)
             IN  IF s[k] \in Range(prev) THEN prev ELSE Append(prev, s[k])
  IN  upTo(Len(s))

\* every directory at or below root that directly holds a matching file
findAllSubdirsWithSome(root, filter, fileTree) ==
  LET hits == SelectSeq(fileTree,
                        LAMBDA f : IsUnder(root, f) /\ ~endsWithSep(f) /\ Matches(filter, f))
  IN  Distinct([i \in 1..Len(hits) |-> parentDir(hits[i])])

\* the direct subdirectories of dir that directly hold a matching file
findDirectSubdirsWithSome(dir, filter, fileTree) ==
  LET hits == SelectSeq(fileTree,
                        LAMBDA f : /\ IsUnder(dir, f)
                                   /\ Len(NonEmpty(f)) = Len(NonEmpty(dir)) + 2
                                   /\ ~endsWithSep(f)
                                   /\ Matches(filter, f))
  IN  Distinct([i \in 1..Len(hits) |-> parentDir(hits[i])])

\* the direct subdirectories of dir
subdirPaths(dir, fileTree) ==
  LET hits == SelectSeq(fileTree,
                        LAMBDA f : IsUnder(dir, f) /\
                                   (Len(NonEmpty(f)) > Len(NonEmpty(dir)) + 1 \/ endsWithSep(f)))
  IN  Distinct([i \in 1..Len(hits) |-> SubSeq(NonEmpty(hits[i]), 1, Len(NonEmpty(dir)) + 1)])

\* dirInTree(dir, tree): the directory node exists, with or without files
dirInTree(dir, fileTree) ==
  \E i \in 1..Len(fileTree) :
    \/ IsUnder(dir, fileTree[i])
    \/ endsWithSep(fileTree[i]) /\ NonEmpty(fileTree[i]) = NonEmpty(dir)

\* subdirNamesIn(dir, tree): the names of the direct subdirectories
subdirNamesIn(dir, fileTree) ==
  LET paths == subdirPaths(dir, fileTree)
  IN  [i \in 1..Len(paths) |-> paths[i][Len(paths[i])]]

(***************************************************************************)
(* REDmod detection (installer.redmod)                                     *)
(***************************************************************************)
matchAnyREDmodSubtypeDir(fileTree, inDir) ==
  \E n \in Range(subdirNamesIn(inDir, fileTree)) : n \in REDMOD_SUBTYPE_DIRNAMES

findCanonicalREDmodDirs(fileTree) ==
  SelectSeq(findDirectSubdirsWithSome(REDMOD_BASEDIR, "matchREDmodInfoJson", fileTree),
            LAMBDA d : matchAnyREDmodSubtypeDir(fileTree, d))

findNamedREDmodDirs(fileTree) ==
  SelectSeq(findDirectSubdirsWithSome(FILETREE_ROOT, "matchREDmodInfoJson", fileTree),
            LAMBDA d : matchAnyREDmodSubtypeDir(fileTree, d))

\* a Canon detection that looks for a valid REDmod directory below mods\
detectCanonREDmodLayoutByModDirs(fileTree) == Len(findCanonicalREDmodDirs(fileTree)) > 0

detectCanonREDmodLayout(fileTree) == dirInTree(REDMOD_BASEDIR, fileTree)

detectNamedREDmodLayout(fileTree) == Len(findNamedREDmodDirs(fileTree)) > 0

detectToplevelREDmodLayout(fileTree) ==
  /\ dirWithSomeIn(FILETREE_ROOT, "matchREDmodInfoJson", fileTree)
  /\ matchAnyREDmodSubtypeDir(fileTree, FILETREE_ROOT)

detectREDmodLayout(fileTree) ==
  \/ detectCanonREDmodLayout(fileTree)
  \/ detectNamedREDmodLayout(fileTree)
  \/ detectToplevelREDmodLayout(fileTree)

testForREDmod(fileTree) == Supported(detectREDmodLayout(fileTree))

(***************************************************************************)
(* ArchiveOnly                                                             *)
(***************************************************************************)
IsArchiveLowercased(file) == toLowerCase(extname(file)) = MOD_FILE_EXT

\* importantBaseDirs.includes(path.dirname(f).split(path.sep)[0])
InImportantBaseDir(f) == dirname(f)[1] \in {"bin", "r6", "red4ext"}

testForArchiveOnlyMod(files, gameId) ==
  LET filtered == SelectSeq(files, IsArchiveLowercased)
      unfiltered == SelectSeq(files, LAMBDA f : f \notin Range(filtered))
      hasNonArchive == \E i \in 1..Len(unfiltered) : InImportantBaseDir(unfiltered[i])
  IN  IF gameId # GAME_ID THEN Supported(FALSE)
      ELSE IF Len(filtered) = 0 THEN Supported(FALSE)
      ELSE IF Len(files) > Len(filtered)
      THEN (IF hasNonArchive THEN Supported(FALSE) ELSE Supported(TRUE))
      ELSE IF Len(files) = Len(filtered) THEN Supported(TRUE)
      ELSE Supported(FALSE)

Layout(kind, instructions) == [kind |-> kind, instructions |-> instructions]

archiveCanonInstructions(fileTree) ==
  IF ~dirWithSomeUnder(ARCHIVE_ONLY_CANONICAL_PREFIX, "matchArchive", fileTree)
  THEN Layout("Canon", <<>>)
  ELSE Layout("Canon",
              instructionsForSameSourceAndDestPaths(
                filesUnder(ARCHIVE_ONLY_CANONICAL_PREFIX, fileTree)))

\* the path as it came
keepOldPrefix(f) == f

\* f.replace(wrong prefix, canonical prefix): the first occurrence, which for
\* a file under the wrong prefix is its beginning
replaceOldPrefix(f) ==
  LET old == NonEmpty(ARCHIVE_ONLY_TRADITIONAL_WRONG_PREFIX)
  IN  IF IsPrefix(old, f) /\ Len(f) > Len(old)
      THEN NonEmpty(ARCHIVE_ONLY_CANONICAL_PREFIX) \o SubSeq(f, Len(old) + 1, Len(f))
      ELSE f

archiveOldToNewCanonInstructions(fileTree) ==
  IF ~dirWithSomeUnder(ARCHIVE_ONLY_TRADITIONAL_WRONG_PREFIX, "matchArchive", fileTree)
  THEN Layout("Heritage", <<>>)
  ELSE Layout("Heritage",
              LET oldCanonFiles == filesUnder(ARCHIVE_ONLY_TRADITIONAL_WRONG_PREFIX, fileTree)
              IN  instructionsForSourceToDestPairs(
                    [i \in 1..Len(oldCanonFiles) |->
                       <<oldCanonFiles[i], replaceOldPrefix(oldCanonFiles[i])>>]))

\* an Other layout that puts every file directly into the canonical directory
archiveOtherDirsFlattened(fileTree) ==
  LET allDirs == findAllSubdirsWithSome(FILETREE_ROOT, "matchArchive", fileTree)
      allFiles == Concat([i \in 1..Len(allDirs) |-> filesUnder(allDirs[i], fileTree)])
  IN  Layout("Other",
             instructionsForSourceToDestPairs(
               [i \in 1..Len(allFiles) |->
                  <<allFiles[i], join(ARCHIVE_ONLY_CANONICAL_PREFIX, <<basename(allFiles[i])>>)>>]))

archiveOtherDirsToCanonInstructions(fileTree) ==
  LET allDirs == findAllSubdirsWithSome(FILETREE_ROOT, "matchArchive", fileTree)
      allFiles == Concat([i \in 1..Len(allDirs) |-> filesUnder(allDirs[i], fileTree)])
  IN  Layout("Other",
             instructionsForSourceToDestPairs(
               [i \in 1..Len(allFiles) |->
                  <<allFiles[i], join(ARCHIVE_ONLY_CANONICAL_PREFIX, allFiles[i])>>]))

\* the layouts tried with Heritage before Canon
useFirstMatchingLayoutHeritageFirst(fileTree) ==
  LET canon == archiveCanonInstructions(fileTree)
      heritage == archiveOldToNewCanonInstructions(fileTree)
  IN  IF Len(heritage.instructions) > 0 THEN heritage
      ELSE IF Len(canon.instructions) > 0 THEN canon
      ELSE archiveOtherDirsToCanonInstructions(fileTree)

\* the layouts in the order tried: Canon, Heritage, Other; the first one with
\* instructions is kept
useFirstMatchingLayoutForInstructions(fileTree) ==
  LET canon == archiveCanonInstructions(fileTree)
      heritage == archiveOldToNewCanonInstructions(fileTree)
  IN  IF Len(canon.instructions) > 0 THEN canon
      ELSE IF Len(heritage.instructions) > 0 THEN heritage
      ELSE archiveOtherDirsToCanonInstructions(fileTree)

\* the dialogs warnUserIfModMightNeedManualReview shows
warnUserIfModMightNeedManualReview(chosenInstructions) ==
  LET newTree == fileTreeFromPaths([i \in 1..Len(chosenInstructions.instructions) |->
                                      chosenInstructions.instructions[i].destination])
      warnAboutSubdirs == Len(subdirPaths(ARCHIVE_ONLY_CANONICAL_PREFIX, newTree)) > 0
      hasMultipleTopLevelFiles ==
        Len(filesIn(ARCHIVE_ONLY_CANONICAL_PREFIX, "matchArchive", newTree)) > 1
      warnAboutToplevel == chosenInstructions.kind = "Other" /\ hasMultipleTopLevelFiles
  IN  IF warnAboutSubdirs \/ warnAboutToplevel THEN {"showArchiveInstallWarning"} ELSE {}

installArchiveOnlyMod(files, destinationPath) ==
  LET fileTree == fileTreeFromPaths(files)
      fileCount == Len(filesUnder(FILETREE_ROOT, fileTree))
      chosenInstructions == useFirstMatchingLayoutForInstructions(fileTree)
  IN  IF Len(chosenInstructions.instructions) < 1
      THEN Rejected("ArchiveOnly installer failed to generate any instructions!", {})
      ELSE IF Len(chosenInstructions.instructions) # fileCount
      THEN Rejected("Conflicting layouts for Archive mod!", {"showArchiveStructureErrorDialog"})
      ELSE Resolved(chosenInstructions.instructions,
                    warnUserIfModMightNeedManualReview(chosenInstructions))

(***************************************************************************)
(* REDmod autoconversion of an archive layout (installer.redmod)           *)
(***************************************************************************)
REDMOD_ARCHIVES_DIRNAME == <<"archives">>

FeatureEnabled == "Enabled"

FeatureDisabled == "Disabled"

\* the mod the host is installing, as the installers are told
ModInfo == [name |-> "X", version |-> "1.0"]

\* the name with the autoconvert marker behind it
modInfoTaggedAsAutoconverted(modInfo) ==
  [modInfo EXCEPT !.name = CASE @ = "X" -> "X_autoconverted" [] OTHER -> @]

\* the file, and where it goes when sourceDirPrefix becomes destinationDirPrefix
moveFromTo(sourceDirPrefix, destinationDirPrefix, f) ==
  LET from == NonEmpty(sourceDirPrefix)
  IN  IF IsPrefix(from, f)
      THEN <<f, join(destinationDirPrefix, SubSeq(f, Len(from) + 1, Len(f)))>>
      ELSE <<f, join(destinationDirPrefix, f)>>

instructionsToMoveAllFromSourceToDestination(sourceDirPrefix, destinationDirPrefix, fs) ==
  instructionsForSourceToDestPairs(
    [i \in 1..Len(fs) |-> moveFromTo(sourceDirPrefix, destinationDirPrefix, fs[i])])

\* the instructions of the archive sub-layout and the dialogs it shows
archiveLayoutAndValidation(relativeSourceDir, relativeDestDir, fileTree) ==
  LET archiveDir == join(relativeSourceDir, REDMOD_ARCHIVES_DIRNAME)
      correctlyPlacedArchiveFiles == filesIn(archiveDir, "matchREDmodArchive", fileTree)
      allArchiveFilesInArchivePath ==
        SelectSeq(filesUnder(archiveDir, fileTree), matchREDmodArchive)
      hasArchivesInSubdirs ==
        Len(allArchiveFilesInArchivePath) # Len(correctlyPlacedArchiveFiles)
      hasMultipleArchives == Len(correctlyPlacedArchiveFiles) > 1
  IN  [instructions |->
         instructionsToMoveAllFromSourceToDestination(
           relativeSourceDir, relativeDestDir, allArchiveFilesInArchivePath),
       dialogs |->
         IF hasArchivesInSubdirs \/ hasMultipleArchives
         THEN {"showArchiveInstallWarning"} ELSE {}]

\* String.prototype.replace(old, new) with a directory prefix for old: the
\* first place where the segments of old stand in p, followed by more
replaceFirst(p, old, new) ==
  LET o == NonEmpty(old)
      hits == {i \in 1..Len(p) :
                 i + Len(o) <= Len(p) /\ SubSeq(p, i, i + Len(o) - 1) = o}
  IN  IF hits = {} THEN p
      ELSE LET at == CHOOSE i \in hits : \A j \in hits : i <= j
           IN  SubSeq(p, 1, at - 1) \o NonEmpty(new) \o SubSeq(p, at + Len(o), Len(p))

\* new Map(pairs).get(key) is not undefined
mapHas(pairs, key) == \E i \in 1..Len(pairs) : pairs[i][1] = key

\* a lookup that hands the key back
mapGetKey(pairs, key) == key

\* new Map(pairs).get(key): the value of the last pair with the key
mapGet(pairs, key) ==
  LET at == {i \in 1..Len(pairs) : pairs[i][1] = key}
  IN  pairs[CHOOSE i \in at : \A j \in at : j <= i][2]

\* Array.from(new Map(pairs).keys()): the keys in the order first inserted
mapKeys(pairs) == Distinct([i \in 1..Len(pairs) |-> pairs[i][1]])

\* a transformation that looks at the kind before it looks at the feature,
\* and leaves the conversion itself out
transformCheckingKindFirst(features, modInfo, originalInstructions) ==
  IF originalInstructions.kind = "XL"
  THEN [kind |-> originalInstructions.kind,
        instructions |-> originalInstructions.instructions,
        dialogs |-> {"REDmodArchiveNOTautoconverted"}]
  ELSE [kind |-> originalInstructions.kind,
        instructions |-> originalInstructions.instructions, dialogs |-> {}]

transformToREDmodArchiveInstructions(features, modInfo, originalInstructions) ==
  LET redmodInfoWithAutoconvertTag == modInfoTaggedAsAutoconverted(modInfo)
      redmodModuleName == redmodInfoWithAutoconvertTag.name
      destinationDirWithModnamePrefix == join(join(REDMOD_BASEDIR, <<redmodModuleName>>), <<"">>)
      destinationArchiveDirWithModnamePrefix ==
        join(join(destinationDirWithModnamePrefix, REDMOD_ARCHIVES_DIRNAME), <<"">>)
      infoJson == [name |-> redmodModuleName, version |-> redmodInfoWithAutoconvertTag.version]
      generateInfoJsonInstruction ==
        [type |-> "generatefile", data |-> infoJson,
         destination |-> join(destinationDirWithModnamePrefix, REDMOD_INFO_FILENAME)]
      copyInstructions ==
        SelectSeq(originalInstructions.instructions, LAMBDA i : i.type = "copy")
      realSourceAndVirtualSourcePairs ==
        [k \in 1..Len(copyInstructions) |->
           <<replaceFirst(copyInstructions[k].destination, ARCHIVE_ONLY_CANONICAL_PREFIX,
                          destinationArchiveDirWithModnamePrefix),
             copyInstructions[k].source>>]
      fileTreeForVirtualREDmodSources ==
        fileTreeFromPaths(mapKeys(realSourceAndVirtualSourcePairs))
      produced ==
        archiveLayoutAndValidation(destinationDirWithModnamePrefix,
                                   destinationDirWithModnamePrefix,
                                   fileTreeForVirtualREDmodSources)
      redmodInstructionsMappedBackToRealSources ==
        [k \in 1..Len(produced.instructions) |->
           IF mapHas(realSourceAndVirtualSourcePairs, produced.instructions[k].source)
           THEN [produced.instructions[k] EXCEPT
                   !.source = mapGet(realSourceAndVirtualSourcePairs, @)]
           ELSE produced.instructions[k]]
  IN  IF features # FeatureEnabled
      THEN [kind |-> originalInstructions.kind,
            instructions |-> originalInstructions.instructions, dialogs |-> {}]
      ELSE IF originalInstructions.kind = "XL"
      THEN [kind |-> originalInstructions.kind,
            instructions |-> originalInstructions.instructions,
            dialogs |-> {"REDmodArchiveNOTautoconverted"}]
      ELSE [kind |-> "REDmodTransformedArchive",
            instructions |->
              Append(redmodInstructionsMappedBackToRealSources, generateInfoJsonInstruction),
            dialogs |-> produced.dialogs \cup {"REDmodArchiveAutoconverted"}]

\* the archive installer with the autoconversion behind it: the layout the
\* archive installer settled on goes through the transformation
installArchiveOnlyModAsREDmod(files, destinationPath, features) ==
  LET fileTree == fileTreeFromPaths(files)
      installed == installArchiveOnlyMod(files, destinationPath)
      chosenInstructions == useFirstMatchingLayoutForInstructions(fileTree)
      transformed == transformToREDmodArchiveInstructions(features, ModInfo, chosenInstructions)
  IN  IF installed.status # "resolved" THEN installed
      ELSE Resolved(transformed.instructions, installed.dialogs \cup transformed.dialogs)

(***************************************************************************)
(* REDmod install (installer.redmod).  The info.json files are read from   *)
(* the staging directory: disk maps a module directory to what             *)
(* tryReadInfoJson makes of its info.json, InvalidInfoJson when the file   *)
(* cannot be read, parsed or decoded.                                      *)
(***************************************************************************)
REDMOD_CUSTOMSOUNDS_DIRNAME == <<"customSounds">>

REDMOD_SCRIPTS_DIRNAME == <<"scripts">>

REDMOD_TWEAKS_DIRNAME == <<"tweaks">>

REDMOD_CUSTOMSOUNDS_VALID_EXTENSIONS == {".wav"}

REDMOD_SCRIPTS_VALID_EXTENSIONS == {".script", ".ws"}

REDMOD_TWEAKS_VALID_EXTENSIONS == {".tweak"}

REDMOD_SCRIPTS_VALID_SUBDIR_NAMES == <<"core", "cyberpunk", "exec", "samples", "tests">>

REDMOD_TWEAKS_VALID_SUBDIR == <<"base", "gameplay", "static_data">>

REDMOD_SCRIPTS_MODDED_DIR == <<"r6", "cache", "modded">>

InvalidInfoJson == [valid |-> FALSE, name |-> "", customSounds |-> <<>>]

\* a decoded info.json; customSounds holds the type of each declared sound
REDmodInfo(name, customSounds) == [valid |-> TRUE, name |-> name, customSounds |-> customSounds]

matchREDmodCustomSound(p) == toLowerCase(extname(p)) \in REDMOD_CUSTOMSOUNDS_VALID_EXTENSIONS

matchREDmodScript(p) == toLowerCase(extname(p)) \in REDMOD_SCRIPTS_VALID_EXTENSIONS

matchREDmodTweak(p) == toLowerCase(extname(p)) \in REDMOD_TWEAKS_VALID_EXTENSIONS

\* an Either: Right(instructions) or Left(error), with the dialogs shown
\* on the way
Right(instructions, dialogs) ==
  [left |-> FALSE, instructions |-> instructions, error |-> "", dialogs |-> dialogs]

Left(message, dialogs) ==
  [left |-> TRUE, instructions |-> <<>>, error |-> message, dialogs |-> dialogs]

mkdir(dir) == [type |-> "mkdir", destination |-> dir]

\* instructionsToGenerateDirs(dirs)
instructionsToGenerateDirs(dirs) == [i \in 1..Len(dirs) |-> mkdir(dirs[i])]

splitCanonREDmodsIfTheresMultiple(fileTree) ==
  LET allValidCanonicalREDmodDirs == findCanonicalREDmodDirs(fileTree)
      allREDmodLookingDirs == subdirPaths(REDMOD_BASEDIR, fileTree)
      invalidDirs ==
        SelectSeq(allREDmodLookingDirs, LAMBDA d : d \notin Range(allValidCanonicalREDmodDirs))
  IN  IF Len(invalidDirs) > 0
      THEN Left("Canon Layout: these directories don't look like valid REDmods", {})
      ELSE Right(allValidCanonicalREDmodDirs, {})

splitNamedREDmodsIfTheresMultiple(fileTree) == Right(findNamedREDmodDirs(fileTree), {})

\* REDmodInfoAndPathDetes
collectPathDetesForInstructions(relativeSourceDir, redmodInfo, fileTree) ==
  [redmodInfo |-> redmodInfo,
   relativeSourceDir |-> relativeSourceDir,
   relativeDestDir |-> join(REDMOD_BASEDIR, <<redmodInfo.name>>),
   fileTree |-> fileTree]

initJsonLayoutAndValidation(infoAndPaths) ==
  Right(instructionsToMoveAllFromSourceToDestination(
          infoAndPaths.relativeSourceDir, infoAndPaths.relativeDestDir,
          <<join(infoAndPaths.relativeSourceDir, REDMOD_INFO_FILENAME)>>),
        {})

\* a customSounds check that only asks for the sounds info.json declares
customSoundLayoutRequiringOnly(infoAndPaths) ==
  LET customSoundsDir == join(infoAndPaths.relativeSourceDir, REDMOD_CUSTOMSOUNDS_DIRNAME)
      allCustomSoundFiles ==
        SelectSeq(filesUnder(customSoundsDir, infoAndPaths.fileTree), matchREDmodCustomSound)
      infoJsonRequiresSoundFiles ==
        \E i \in 1..Len(infoAndPaths.redmodInfo.customSounds) :
          infoAndPaths.redmodInfo.customSounds[i] # "mod_skip"
  IN  IF infoJsonRequiresSoundFiles /\ Len(allCustomSoundFiles) = 0
      THEN Left("customSounds sublayout", {})
      ELSE Right(instructionsToMoveAllFromSourceToDestination(
                   infoAndPaths.relativeSourceDir, infoAndPaths.relativeDestDir,
                   allCustomSoundFiles),
                 {})

customSoundLayoutAndValidation(infoAndPaths) ==
  LET customSoundsDir == join(infoAndPaths.relativeSourceDir, REDMOD_CUSTOMSOUNDS_DIRNAME)
      allCustomSoundFiles ==
        SelectSeq(filesUnder(customSoundsDir, infoAndPaths.fileTree), matchREDmodCustomSound)
      infoJsonRequiresSoundFiles ==
        \E i \in 1..Len(infoAndPaths.redmodInfo.customSounds) :
          infoAndPaths.redmodInfo.customSounds[i] # "mod_skip"
      hasSoundFiles == Len(allCustomSoundFiles) > 0
  IN  IF \/ infoJsonRequiresSoundFiles /\ ~hasSoundFiles
         \/ ~infoJsonRequiresSoundFiles /\ hasSoundFiles
      THEN Left("customSounds sublayout", {})
      ELSE Right(instructionsToMoveAllFromSourceToDestination(
                   infoAndPaths.relativeSourceDir, infoAndPaths.relativeDestDir,
                   allCustomSoundFiles),
                 {})

\* a scripts check that lets every script through
scriptLayoutWithoutValidation(infoAndPaths) ==
  LET scriptsDir == join(infoAndPaths.relativeSourceDir, REDMOD_SCRIPTS_DIRNAME)
      allScriptFiles == SelectSeq(filesUnder(scriptsDir, infoAndPaths.fileTree), matchREDmodScript)
  IN  Right(instructionsToMoveAllFromSourceToDestination(
              infoAndPaths.relativeSourceDir, infoAndPaths.relativeDestDir, allScriptFiles),
            {})

scriptLayoutAndValidation(infoAndPaths) ==
  LET scriptsDir == join(infoAndPaths.relativeSourceDir, REDMOD_SCRIPTS_DIRNAME)
      allScriptFiles == SelectSeq(filesUnder(scriptsDir, infoAndPaths.fileTree), matchREDmodScript)
      allScriptFilesInValidBasedir ==
        Concat([i \in 1..Len(REDMOD_SCRIPTS_VALID_SUBDIR_NAMES) |->
                  SelectSeq(filesUnder(join(scriptsDir, <<REDMOD_SCRIPTS_VALID_SUBDIR_NAMES[i]>>),
                                       infoAndPaths.fileTree),
                            matchREDmodScript)])
  IN  IF Len(allScriptFiles) # Len(allScriptFilesInValidBasedir)
      THEN Left("Script sublayout: these files don't look like valid REDmod scripts", {})
      ELSE Right(instructionsToMoveAllFromSourceToDestination(
                   infoAndPaths.relativeSourceDir, infoAndPaths.relativeDestDir, allScriptFiles),
                 {})

tweakLayoutAndValidation(infoAndPaths) ==
  LET tweaksDir == join(infoAndPaths.relativeSourceDir, REDMOD_TWEAKS_DIRNAME)
      tweaksDirWithValidBasedir == join(tweaksDir, REDMOD_TWEAKS_VALID_SUBDIR)
      allTweakFiles == SelectSeq(filesUnder(tweaksDir, infoAndPaths.fileTree), matchREDmodTweak)
      allTweakFilesInValidBasedir ==
        SelectSeq(filesUnder(tweaksDirWithValidBasedir, infoAndPaths.fileTree), matchREDmodTweak)
  IN  IF Len(allTweakFiles) # Len(allTweakFilesInValidBasedir)
      THEN Left("Tweak Layout: these files don't look like valid REDmod tweaks", {})
      ELSE Right(instructionsToMoveAllFromSourceToDestination(
                   infoAndPaths.relativeSourceDir, infoAndPaths.relativeDestDir, allTweakFiles),
                 {})

extraFilesLayoutAndValidation(infoAndPaths) ==
  LET dir == infoAndPaths.relativeSourceDir
      fileTree == infoAndPaths.fileTree
      subdirs == SelectSeq(subdirNamesIn(dir, fileTree),
                           LAMBDA n : n \notin REDMOD_SUBTYPE_DIRNAMES)
      filesInSubdirsNotHandled ==
        Concat([i \in 1..Len(subdirs) |-> filesUnder(join(dir, <<subdirs[i]>>), fileTree)])
      allRemainingFiles ==
        SelectSeq(filesIn(dir, "Glob.Any", fileTree), LAMBDA f : ~matchREDmodInfoJson(f))
          \o filesInSubdirsNotHandled
  IN  Right(instructionsToMoveAllFromSourceToDestination(
              dir, infoAndPaths.relativeDestDir, allRemainingFiles),
            {})

ensureModdedDirExistsInstructions == instructionsToGenerateDirs(<<REDMOD_SCRIPTS_MODDED_DIR>>)

\* the sub-layouts of one module in the order they are applied
subLayout(k, infoAndPaths) ==
  CASE k = 1 -> initJsonLayoutAndValidation(infoAndPaths)
    [] k = 2 -> LET r == archiveLayoutAndValidation(infoAndPaths.relativeSourceDir,
                                                    infoAndPaths.relativeDestDir,
                                                    infoAndPaths.fileTree)
                IN  Right(r.instructions, r.dialogs)
    [] k = 3 -> customSoundLayoutAndValidation(infoAndPaths)
    [] k = 4 -> scriptLayoutAndValidation(infoAndPaths)
    [] k = 5 -> tweakLayoutAndValidation(infoAndPaths)
    [] k = 6 -> extraFilesLayoutAndValidation(infoAndPaths)

\* Either's traverseArray over the results rs of a sequence of steps: the
\* steps run in order up to the first Left, which is the result; the
\* dialogs are those of the steps that ran
traverseArrayE(rs) ==
  LET lefts == {i \in 1..Len(rs) : rs[i].left}
      last == IF lefts = {} THEN Len(rs) ELSE CHOOSE i \in lefts : \A j \in lefts : i <= j
      shown == UNION {rs[i].dialogs : i \in 1..last}
  IN  IF lefts = {} THEN Right(Concat([i \in 1..Len(rs) |-> rs[i].instructions]), shown)
      ELSE Left(rs[last].error, shown)

\* TaskEither's traverseArray: every task runs, the result is the first Left
\* in order if there is one
traverseArrayTE(rs) ==
  LET lefts == {i \in 1..Len(rs) : rs[i].left}
      shown == UNION {rs[i].dialogs : i \in 1..Len(rs)}
  IN  IF lefts = {} THEN Right(Concat([i \in 1..Len(rs) |-> rs[i].instructions]), shown)
      ELSE Left(rs[CHOOSE i \in lefts : \A j \in lefts : i <= j].error, shown)

\* the instructions of the module in relativeModDir
singleModPipeline(relativeModDir, fileTree, disk) ==
  LET redmodInfo == disk[relativeModDir]
      modInfoAndPathDetes == collectPathDetesForInstructions(relativeModDir, redmodInfo, fileTree)
  IN  IF ~redmodInfo.valid THEN Left("Error validating info.json", {})
      ELSE traverseArrayE([k \in 1..6 |-> subLayout(k, modInfoAndPathDetes)])

canonLayoutMatches(fileTree) == detectCanonREDmodLayout(fileTree)

namedLayoutMatches(fileTree) == detectNamedREDmodLayout(fileTree)

toplevelLayoutMatches(fileTree) == detectToplevelREDmodLayout(fileTree)

toplevelLayoutDir(fileTree) == Right(<<FILETREE_ROOT>>, {})

\* a layout matcher, by name
layoutMatches(layout, fileTree) ==
  CASE layout = "Canon" -> canonLayoutMatches(fileTree)
    [] layout = "Named" -> namedLayoutMatches(fileTree)
    [] layout = "Toplevel" -> toplevelLayoutMatches(fileTree)

\* the module directories of a layout, by name
modDirsForLayout(layout, fileTree) ==
  CASE layout = "Canon" -> splitCanonREDmodsIfTheresMultiple(fileTree)
    [] layout = "Named" -> splitNamedREDmodsIfTheresMultiple(fileTree)
    [] layout = "Toplevel" -> toplevelLayoutDir(fileTree)

\* a choice of layout that takes the last of the allowed layouts that matches
lastMatchingLayout(allowedLayouts, fileTree) ==
  LET hits == {i \in 1..Len(allowedLayouts) : layoutMatches(allowedLayouts[i], fileTree)}
  IN  IF hits = {} THEN ""
      ELSE allowedLayouts[CHOOSE i \in hits : \A j \in hits : i >= j]

\* findFirstMap over the allowed layouts: the first that matches, "" if none
firstMatchingLayout(allowedLayouts, fileTree) ==
  LET hits == {i \in 1..Len(allowedLayouts) : layoutMatches(allowedLayouts[i], fileTree)}
  IN  IF hits = {} THEN ""
      ELSE allowedLayouts[CHOOSE i \in hits : \A j \in hits : i <= j]

\* the module directories whose info.json the pipeline reads
modDirsToRead(allowedLayouts, fileTree) ==
  LET layout == firstMatchingLayout(allowedLayouts, fileTree)
  IN  IF layout = "" THEN <<>> ELSE modDirsForLayout(layout, fileTree).instructions

\* a pipeline that makes the modded-scripts directory once for each module
instructionsForLayoutsPipelineMkdirPerModule(fileTree, disk, allowedLayouts) ==
  LET layout == firstMatchingLayout(allowedLayouts, fileTree)
      allModDirsForLayout == modDirsForLayout(layout, fileTree)
      dirs == allModDirsForLayout.instructions
      all == traverseArrayTE([i \in 1..Len(dirs) |->
               LET r == singleModPipeline(dirs[i], fileTree, disk)
               IN  IF r.left THEN r
                   ELSE Right(r.instructions \o ensureModdedDirExistsInstructions, r.dialogs)])
  IN  IF layout = "" THEN Left("No REDmod layout found!", {})
      ELSE IF allModDirsForLayout.left THEN allModDirsForLayout
      ELSE all

\* a pipeline that leaves out the modules that fail
instructionsForLayoutsPipelineSkippingFailed(fileTree, disk, allowedLayouts) ==
  LET layout == firstMatchingLayout(allowedLayouts, fileTree)
      allModDirsForLayout == modDirsForLayout(layout, fileTree)
      dirs == allModDirsForLayout.instructions
      rs == [i \in 1..Len(dirs) |-> singleModPipeline(dirs[i], fileTree, disk)]
      ok == SelectSeq(rs, LAMBDA r : ~r.left)
  IN  IF layout = "" THEN Left("No REDmod layout found!", {})
      ELSE IF allModDirsForLayout.left THEN allModDirsForLayout
      ELSE Right(Concat([i \in 1..Len(ok) |-> ok[i].instructions])
                   \o ensureModdedDirExistsInstructions,
                 UNION {rs[i].dialogs : i \in 1..Len(rs)})

\* mapTE(concat(extra)): extra is appended to the instructions of a Right
mapConcat(e, extra) ==
  IF e.left THEN e ELSE Right(e.instructions \o extra, e.dialogs)

\* chain(flow(traverseArrayTE(singleModPipeline), mapTE(flatten),
\* mapTE(concat(ensureModdedDirExistsInstructions())))) over the module
\* directories of the layout
chainSingleModPipelines(allModDirsForLayout, fileTree, disk) ==
  IF allModDirsForLayout.left THEN allModDirsForLayout
  ELSE mapConcat(traverseArrayTE([i \in 1..Len(allModDirsForLayout.instructions) |->
                                    singleModPipeline(allModDirsForLayout.instructions[i],
                                                      fileTree, disk)]),
                 ensureModdedDirExistsInstructions)

\* allModsForLayoutPipeline, from the layout that findFirstMap found
allModsForLayoutPipeline(layout, fileTree, disk) ==
  IF layout = "" THEN Left("No REDmod layout found!", {})
  ELSE chainSingleModPipelines(modDirsForLayout(layout, fileTree), fileTree, disk)

instructionsForLayoutsPipeline(fileTree, disk, allowedLayouts) ==
  allModsForLayoutPipeline(firstMatchingLayout(allowedLayouts, fileTree), fileTree, disk)

allAllowedLayouts == <<"Canon", "Named", "Toplevel">>

layoutsAllowedInMultitype == <<"Canon">>

failAfterWarningUserAndLogging(dialogs) ==
  Rejected("Didn't Find Expected REDmod Installation!",
           dialogs \cup {"showWarningForUnrecoverableStructureError"})

\* the end of installREDmod: a Left fails after the warning, a Right returns
\* its instructions
returnInstructionsOrFail(allInstructionsForEverySubmodInside) ==
  IF allInstructionsForEverySubmodInside.left
  THEN failAfterWarningUserAndLogging(allInstructionsForEverySubmodInside.dialogs)
  ELSE Resolved(allInstructionsForEverySubmodInside.instructions,
                allInstructionsForEverySubmodInside.dialogs)

installREDmod(fileTree, disk) ==
  returnInstructionsOrFail(instructionsForLayoutsPipeline(fileTree, disk, allAllowedLayouts))

detectAllowedREDmodLayoutsForMultitype(fileTree) == detectCanonREDmodLayout(fileTree)

redmodAllowedInstructionsForMultitype(fileTree, disk) ==
  IF ~detectAllowedREDmodLayoutsForMultitype(fileTree) THEN Right(<<>>, {})
  ELSE instructionsForLayoutsPipeline(fileTree, disk, layoutsAllowedInMultitype)

(***************************************************************************)
(* JSON                                                                    *)
(***************************************************************************)
\* KNOWN_JSON_FILES
KNOWN_JSON_FILES ==
  [n \in {"giweights.json"} |-> <<"engine", "config", "giweights.json">>] @@
  [n \in {"bumpersSettings.json"} |-> <<"r6", "config", "bumpersSettings.json">>]

IsJsonLowercased(file) == toLowerCase(extname(file)) = JSON_FILE_EXT

\* path.dirname(f).toLowerCase().startsWith(path.normalize("r6/config/settings"))
InSettingsDir(f) == startsWith(dirname(f), <<"r6", "config", "settings">>)

\* a detector that rejects what it does not match
testForJsonModRejectingNonMatch(files, gameId) ==
  IF gameId = GAME_ID /\ Len(SelectSeq(files, IsJsonLowercased)) = 0
  THEN TestRejected("No JSON files found.")
  ELSE Supported(FALSE)

testForJsonMod(files, gameId) ==
  LET filtered == SelectSeq(files, IsJsonLowercased)
      cetModJson ==
        SelectSeq(files, LAMBDA f : toLowerCase(basename(f)) = CET_MOD_CANONICAL_INIT_FILE)
      options == \E i \in 1..Len(filtered) : basename(filtered[i]) = "options.json"
      proper == \E i \in 1..Len(filtered) : InSettingsDir(filtered[i])
  IN  IF gameId # GAME_ID THEN Supported(FALSE)
      ELSE IF Len(filtered) = 0 THEN Supported(FALSE)
      ELSE IF Len(cetModJson) # 0 THEN Supported(FALSE)
      ELSE IF options
      THEN (IF ~proper
            THEN TestRejected("Improperly located options.json file found.  We don't know where it belongs.")
            ELSE Supported(TRUE))
      ELSE IF \E i \in 1..Len(filtered) : basename(filtered[i]) \notin DOMAIN KNOWN_JSON_FILES
      THEN TestRejected("Found JSON files that aren't part of the game.")
      ELSE Supported(TRUE)

jsonInstruction(file) ==
  IF basename(file) \in DOMAIN KNOWN_JSON_FILES
  THEN copy(file, KNOWN_JSON_FILES[basename(file)])
  ELSE copy(file, file)

\* an install that refuses the options.json the detector let through
installJsonModRejecting(files, destinationPath) ==
  IF \E i \in 1..Len(files) : basename(files[i]) = "options.json" /\ ~InSettingsDir(files[i])
  THEN Rejected("Improperly located options.json file found.  We don't know where it belongs.", {})
  ELSE Resolved([i \in 1..Len(files) |-> jsonInstruction(files[i])], {})

installJsonMod(files, destinationPath) ==
  LET jsonFiles == SelectSeq(files, LAMBDA f : extname(f) = ".json")
      otherAllowedFiles == SelectSeq(files, LAMBDA f : extname(f) \in {".txt", ".md"})
      filtered == jsonFiles \o otherAllowedFiles
  IN  Resolved([i \in 1..Len(filtered) |-> jsonInstruction(filtered[i])], {})

(***************************************************************************)
(* INI and Reshade                                                         *)
(***************************************************************************)
IsIni(file) == extname(file) = INI_MOD_EXT

\* a test that takes the file for a Reshade preset when the expression matches
testForReshadeFileOnMatch(files, headed) ==
  LET inis == SelectSeq(files, IsIni)
  IN  inis[1] \in headed

\* testForReshadeFile reads the first .ini of the list from the staging
\* folder.  headed is the set of files on disk whose content /^[\[#].+/
\* matches; the function answers true when the replace left the data as it
\* was, i.e. when the expression did not match.
testForReshadeFile(files, headed) ==
  LET inis == SelectSeq(files, IsIni)
  IN  inis[1] \notin headed

testForIniMod(files, gameId) ==
  LET filtered == SelectSeq(files, LAMBDA f : toLowerCase(extname(f)) = INI_MOD_EXT)
  IN  IF gameId # GAME_ID THEN Supported(FALSE)
      ELSE IF Len(filtered) = 0 THEN Supported(FALSE)
      \* basename(file).includes("init.lua"): the names of the model hold
      \* "init.lua" only as a whole
      ELSE IF \E i \in 1..Len(files) :
                 \/ basename(files[i]) = CET_MOD_CANONICAL_INIT_FILE
                 \/ extname(files[i]) = REDS_MOD_CANONICAL_EXTENSION
      THEN Supported(FALSE)
      ELSE IF CET_GLOBAL_INI \in Range(files) THEN Supported(FALSE)
      ELSE Supported(TRUE)

\* file.includes(SHADERS_DIR): the segments of the model hold the directory
\* name only as a whole
includesShadersDir(file) == \E i \in 1..Len(file) : file[i] = SHADERS_DIR

\* file.replace(/.*reshade-shaders/, SHADERS_DIR): greedy, so everything up to
\* the last occurrence goes
fromShadersDir(file) ==
  LET last == CHOOSE i \in 1..Len(file) :
                file[i] = SHADERS_DIR /\ \A j \in (i + 1)..Len(file) : file[j] # SHADERS_DIR
  IN  SubSeq(file, last, Len(file))

installIniMod(files, destinationPath, headed) ==
  LET allIniModFiles == SelectSeq(files, IsIni)
      reshade == testForReshadeFile(allIniModFiles, headed)
      iniFileInstructions ==
        [i \in 1..Len(allIniModFiles) |->
           copy(allIniModFiles[i],
                IF reshade THEN join(RESHADE_MOD_PATH, <<basename(allIniModFiles[i])>>)
                           ELSE join(INI_MOD_PATH, <<basename(allIniModFiles[i])>>))]
      shaderFiles == SelectSeq(files, LAMBDA f : includesShadersDir(f) /\ ~endsWithSep(f))
      shaderInstructions ==
        IF reshade /\ Len(shaderFiles) # 0
        THEN [i \in 1..Len(shaderFiles) |->
                copy(shaderFiles[i], join(RESHADE_MOD_PATH, fromShadersDir(shaderFiles[i])))]
        ELSE <<>>
  IN  \* path.join(folder, undefined) when the list has no .ini file
      IF Len(allIniModFiles) = 0 THEN Threw("TypeError")
      ELSE Resolved(iniFileInstructions \o shaderInstructions, {})

(***************************************************************************)
(* Fallback                                                                *)
(***************************************************************************)
\* a fallback that declines
testAnyOtherModFallbackDeclining(files, gameId) == Supported(FALSE)

testAnyOtherModFallback(files, gameId) ==
  IF gameId # GAME_ID THEN Supported(FALSE) ELSE Supported(TRUE)

\* a fallback that copies without telling the user
installAnyModSilently(files, destinationPath) ==
  Resolved(instructionsForSameSourceAndDestPaths(files), {})

installAnyModWithBasicFixes(files, destinationPath) ==
  Resolved(instructionsForSameSourceAndDestPaths(files),
           {"fallbackInstallerReachedErrorDialog"})

(***************************************************************************)
(* Core installers (./core-installers): each framework is recognised by    *)
(* the signature file of its redistributable and installed verbatim.       *)
(***************************************************************************)
CoreTypes == {"CoreCET", "CoreRedscript", "CoreRed4ext", "CoreCSVMerge", "CoreWolvenKit"}

coreSignature(type) ==
  CASE type = "CoreCET" -> CET_GLOBAL_INI
    [] type = "CoreRedscript" -> <<"engine", "tools", "scc.exe">>
    [] type = "CoreRed4ext" -> <<"red4ext", "RED4ext.dll">>
    [] type = "CoreCSVMerge" -> <<"csvmerge", "CSVMerge.cmd">>
    [] type = "CoreWolvenKit" -> <<"csvmerge", "wolvenkitcli", "WolvenKit.CLI.exe">>

testForCore(type, files, gameId) ==
  Supported(gameId = GAME_ID /\ coreSignature(type) \in Range(files))

installCore(files, destinationPath) ==
  Resolved(instructionsForSameSourceAndDestPaths(files), {})

(***************************************************************************)
(* The pipeline                                                            *)
(***************************************************************************)
installers ==
  << "CoreCET", "CoreRedscript", "CoreRed4ext", "CoreCSVMerge", "CoreWolvenKit",
     "RedCetMix", "CET", "Redscript", "INI", "ArchiveOnly", "JSON", "FallbackForOther" >>

\* priorities handed out downwards
addPriorityFromDescending(start, index) == start + (Len(installers) - index)

\* priorityAdder at index (from 0): the installer with its priority
addPriorityFrom(start, index) == start + index

installerPipeline ==
  [i \in 1..Len(installers) |->
     [type |-> installers[i], priority |-> addPriorityFrom(PRIORITY_STARTING_NUMBER, i - 1)]]

testSupported(type, files, gameId) ==
  CASE type \in CoreTypes -> testForCore(type, files, gameId)
    [] type = "RedCetMix" -> testForRedCetMixedMod(files, gameId)
    [] type = "CET" -> testForCetMod(files, gameId)
    [] type = "Redscript" -> testForRedscriptMod(files, gameId)
    [] type = "INI" -> testForIniMod(files, gameId)
    [] type = "ArchiveOnly" -> testForArchiveOnlyMod(files, gameId)
    [] type = "JSON" -> testForJsonMod(files, gameId)
    [] type = "FallbackForOther" -> testAnyOtherModFallback(files, gameId)

(***************************************************************************)
(* Redscript (installer.redscript.ts), on the FileTree queries             *)
(***************************************************************************)
\* InstallDecision
UserWantsToProceed == "User explicitly wants to proceed with the installation"

UserWantsToCancel == "User explicitly wants to cancel the installation"

makeSyntheticName(vortexDestinationPath) == stripInstalling(basename(vortexDestinationPath))

\* the archives under the canonical prefix ride along verbatim
extraCanonArchiveInstructions(fileTree) ==
  Layout("Canon",
         instructionsForSameSourceAndDestPaths(
           filesUnder(ARCHIVE_ONLY_CANONICAL_PREFIX, fileTree)))

\* the user is asked whether to go on with the fallback installer: on
\* proceed the fallback's verbatim copies are the result, on cancel the
\* install is rejected
promptToFallbackOrFailOnUnresolvableLayout(fileTree, answer) ==
  IF answer = UserWantsToProceed
  THEN Resolved(instructionsForSameSourceAndDestPaths(filesUnder(FILETREE_ROOT, fileTree)),
                {"promptToFallbackOrFail"})
  ELSE Rejected("Redscript Installer: user chose to cancel installation on conflict",
                {"promptToFallbackOrFail"})

\* an install that asks only when it finds no Redscript layout and installs
\* all the layouts it finds when there are several
installRedscriptModFTAskingOnlyWithoutLayout(files, destinationPath, answer) ==
  LET fileTree == fileTreeFromPaths(files)
      hasToplevelReds == dirWithSomeIn(FILETREE_ROOT, "matchRedscript", fileTree)
      toplevelReds == IF hasToplevelReds THEN filesUnder(FILETREE_ROOT, fileTree) ELSE <<>>
      hasBasedirReds == dirWithSomeIn(REDS_MOD_CANONICAL_PATH_PREFIX, "matchRedscript", fileTree)
      basedirReds ==
        IF hasBasedirReds THEN filesUnder(REDS_MOD_CANONICAL_PATH_PREFIX, fileTree) ELSE <<>>
      canonSubdirs ==
        findDirectSubdirsWithSome(REDS_MOD_CANONICAL_PATH_PREFIX, "matchRedscript", fileTree)
      hasCanonReds == Len(canonSubdirs) > 0
      canonReds ==
        IF hasCanonReds
        THEN Concat([i \in 1..Len(canonSubdirs) |-> filesUnder(canonSubdirs[i], fileTree)])
        ELSE <<>>
      installable ==
        SelectSeq(<<hasToplevelReds, hasBasedirReds, hasCanonReds>>, LAMBDA b : b)
      modName == makeSyntheticName(destinationPath)
      redsInstructions ==
        Concat(<<instructionsForSourceToDestPairs(ToSamePath(canonReds)),
                 instructionsForSourceToDestPairs(ToRedsDir(modName, basedirReds)),
                 instructionsForSourceToDestPairs(ToRedsDir(modName, toplevelReds))>>)
  IN  IF Len(installable) = 0
      THEN promptToFallbackOrFailOnUnresolvableLayout(fileTree, answer)
      ELSE Resolved(redsInstructions \o extraCanonArchiveInstructions(fileTree).instructions, {})

installRedscriptModFT(files, destinationPath, answer) ==
  LET fileTree == fileTreeFromPaths(files)
      hasToplevelReds == dirWithSomeIn(FILETREE_ROOT, "matchRedscript", fileTree)
      toplevelReds == IF hasToplevelReds THEN filesUnder(FILETREE_ROOT, fileTree) ELSE <<>>
      hasBasedirReds == dirWithSomeIn(REDS_MOD_CANONICAL_PATH_PREFIX, "matchRedscript", fileTree)
      basedirReds ==
        IF hasBasedirReds THEN filesUnder(REDS_MOD_CANONICAL_PATH_PREFIX, fileTree) ELSE <<>>
      canonSubdirs ==
        findDirectSubdirsWithSome(REDS_MOD_CANONICAL_PATH_PREFIX, "matchRedscript", fileTree)
      hasCanonReds == Len(canonSubdirs) > 0
      canonReds ==
        IF hasCanonReds
        THEN Concat([i \in 1..Len(canonSubdirs) |-> filesUnder(canonSubdirs[i], fileTree)])
        ELSE <<>>
      installable ==
        SelectSeq(<<hasToplevelReds, hasBasedirReds, hasCanonReds>>, LAMBDA b : b)
      modName == makeSyntheticName(destinationPath)
      redsInstructions ==
        Concat(<<instructionsForSourceToDestPairs(ToSamePath(canonReds)),
                 instructionsForSourceToDestPairs(ToRedsDir(modName, basedirReds)),
                 instructionsForSourceToDestPairs(ToRedsDir(modName, toplevelReds))>>)
  IN  IF Len(installable) # 1
      THEN promptToFallbackOrFailOnUnresolvableLayout(fileTree, answer)
      ELSE Resolved(redsInstructions \o extraCanonArchiveInstructions(fileTree).instructions, {})

(***************************************************************************)
(* State: one mod being installed.  The host first asks the detectors in   *)
(* ascending priority (Start, Test...), then calls install of the one it   *)
(* matched; install functions are exported and are also called directly    *)
(* on a file list their detector accepts (phase "idle"), and then once     *)
(* more on the same list.                                                  *)
(***************************************************************************)
VARIABLES files, gameId, phase, answers, selected, runs, first, result

vars == <<files, gameId, phase, answers, selected, runs, first, result>>

\* the paths file lists are made of
Universe ==
  { <<"a.reds">>,
    <<"r6", "scripts", "a.reds">>,
    <<"r6", "scripts", "M", "a.reds">>,
    <<"bin", "x64", "plugins", "cyber_engine_tweaks", "mods", "M", "init.lua">>,
    <<"archive", "pc", "mod", "x.archive">>,
    <<"archive", "pc", "mod", "">>,
    <<"archive", "pc", "patch", "x.archive">>,
    <<"sub", "x.archive">>,
    <<"a.ini">>,
    <<"sub", "a.ini">>,
    <<"reshade-shaders", "readme.txt">>,
    <<"sub", "giweights.json">>,
    <<"sub", "options.json">>,
    <<"sub", "other.json">>,
    <<"bin", "x64", "global.ini">> }

\* file lists: no path twice, as in the listing of an unpacked archive
FileLists ==
  UNION { {s \in [1..n -> Universe] : \A i, j \in 1..n : i # j => s[i] # s[j]} :
          n \in 0..MaxFiles }

GameIds == {GAME_ID, "skyrimse"}

\* the staging directories the host installs into
Destinations == { <<"staging", "MyMod.installing">>, <<"staging", "M">> }

DefaultDestination == <<"staging", "MyMod.installing">>

NoResult ==
  [installer |-> "", status |-> "none", instructions |-> <<>>, error |-> "",
   dialogs |-> {}, destinationPath |-> <<>>, headed |-> {}, answer |-> ""]

\* the result r of installer type, with the inputs of the call beside the
\* file list
Outcome(type, r, destinationPath, headed, answer) ==
  [installer |-> type, status |-> r.status, instructions |-> r.instructions,
   error |-> r.error, dialogs |-> r.dialogs, destinationPath |-> destinationPath,
   headed |-> headed, answer |-> answer]

Init ==
  /\ files \in FileLists
  /\ gameId = ""
  /\ phase = "idle"
  /\ answers = [i \in 1..Len(installers) |-> "unasked"]
  /\ selected = 0
  /\ runs = 0
  /\ first = NoResult
  /\ result = NoResult

\* the host takes up the mod, for the game it manages
Start ==
  /\ phase = "idle"
  /\ \E g \in GameIds : gameId' = g
  /\ phase' = "testing"
  /\ UNCHANGED <<files, answers, selected, runs, first, result>>

\* the host keeps the installers sorted by priority, ascending
askOrder ==
  SortSeq([i \in 1..Len(installerPipeline) |-> i],
          LAMBDA a, b : installerPipeline[a].priority < installerPipeline[b].priority)

\* the installer the host asks next: the first in that order not asked yet
nextToAsk ==
  askOrder[CHOOSE k \in 1..Len(askOrder) :
             /\ answers[askOrder[k]] = "unasked"
             /\ \A j \in 1..(k - 1) : answers[askOrder[j]] # "unasked"]

\* the host takes the answer r of the detector of installer type
Ask(type, r) ==
  /\ phase = "testing"
  /\ installerPipeline[nextToAsk].type = type
  /\ answers' = [answers EXCEPT ![nextToAsk] =
                   IF r.outcome = "rejected" THEN "rejected"
                   ELSE IF r.supported THEN "supported" ELSE "unsupported"]
  /\ selected' = IF r.outcome = "resolved" /\ r.supported THEN nextToAsk ELSE 0
  /\ phase' = IF r.outcome = "rejected" THEN "failed"
              ELSE IF r.supported THEN "matched"
              ELSE IF \A j \in 1..Len(installerPipeline) : j = nextToAsk \/ answers[j] # "unasked"
                   THEN "unsupported"
                   ELSE "testing"
  /\ UNCHANGED <<files, gameId, runs, first, result>>

TestForCore == \E type \in CoreTypes : Ask(type, testForCore(type, files, gameId))

TestForRedCetMixedMod == Ask("RedCetMix", testForRedCetMixedMod(files, gameId))

TestForCetMod == Ask("CET", testForCetMod(files, gameId))

TestForRedscriptMod == Ask("Redscript", testForRedscriptMod(files, gameId))

TestForIniMod == Ask("INI", testForIniMod(files, gameId))

TestForArchiveOnlyMod == Ask("ArchiveOnly", testForArchiveOnlyMod(files, gameId))

TestForJsonMod == Ask("JSON", testForJsonMod(files, gameId))

TestAnyOtherModFallback == Ask("FallbackForOther", testAnyOtherModFallback(files, gameId))

\* the detector that stands before the install of installer type
detectorOf(type) ==
  CASE type = "RedscriptFT" -> "Redscript"
    [] type = "ArchiveOnlyAsREDmod" -> "ArchiveOnly"
    [] OTHER -> type

\* install of installer type may be called now: by the host on the installer
\* it matched, directly on a fresh file list its detector accepts, or once
\* more after a run of it
MayInstall(type) ==
  \/ phase = "matched" /\ installerPipeline[selected].type = type
  \/ phase = "idle" /\ testSupported(detectorOf(type), files, GAME_ID).supported
  \/ phase = "installed" /\ selected = 0 /\ runs = 1 /\ result.installer = type

Install(type, r, destinationPath, headed, answer) ==
  /\ MayInstall(type)
  /\ result' = Outcome(type, r, destinationPath, headed, answer)
  /\ first' = IF runs = 0 THEN result' ELSE first
  /\ runs' = runs + 1
  /\ phase' = "installed"
  /\ UNCHANGED <<files, gameId, answers, selected>>

\* the inputs of a second run that stay as they were in the first: the
\* staging directory and the files on disk
SameCall(destinationPath, headed) ==
  phase = "installed" => destinationPath = result.destinationPath /\ headed = result.headed

InstallCore ==
  \E type \in CoreTypes :
    /\ phase = "matched"
    /\ Install(type, installCore(files, DefaultDestination), DefaultDestination, {}, "")

InstallRedCetMixedMod ==
  Install("RedCetMix", installRedCetMixedMod(files, DefaultDestination),
          DefaultDestination, {}, "")

InstallCetMod ==
  Install("CET", installCetMod(files, DefaultDestination), DefaultDestination, {}, "")

InstallRedscriptMod ==
  \E d \in Destinations :
    /\ SameCall(d, {})
    /\ Install("Redscript", installRedscriptMod(files, d), d, {}, "")

\* the user answers the prompt, if one comes
InstallRedscriptModFT ==
  \E answer \in {UserWantsToProceed, UserWantsToCancel} :
    /\ phase # "matched"
    /\ Install("RedscriptFT", installRedscriptModFT(files, DefaultDestination, answer),
               DefaultDestination, {}, answer)

\* headed: the .ini files whose content starts like a Reshade preset
InstallIniMod ==
  \E headed \in SUBSET Range(SelectSeq(files, IsIni)) :
    /\ phase \in {"matched", "idle", "installed"}
    /\ SameCall(DefaultDestination, headed)
    /\ Install("INI", installIniMod(files, DefaultDestination, headed),
               DefaultDestination, headed, "")

InstallArchiveOnlyMod ==
  Install("ArchiveOnly", installArchiveOnlyMod(files, DefaultDestination),
          DefaultDestination, {}, "")

\* an archive mod installed with the autoconversion feature switched either way
InstallArchiveOnlyModAsREDmod ==
  \E features \in {FeatureEnabled, FeatureDisabled} :
    /\ phase # "matched"
    /\ phase = "installed" /\ result.installer = "ArchiveOnlyAsREDmod" =>
         features = result.answer
    /\ Install("ArchiveOnlyAsREDmod",
               installArchiveOnlyModAsREDmod(files, DefaultDestination, features),
               DefaultDestination, {}, features)

InstallJsonMod ==
  Install("JSON", installJsonMod(files, DefaultDestination), DefaultDestination, {}, "")

InstallAnyModWithBasicFixes ==
  Install("FallbackForOther", installAnyModWithBasicFixes(files, DefaultDestination),
          DefaultDestination, {}, "")

Next ==
  \/ Start
  \/ TestForCore
  \/ TestForRedCetMixedMod
  \/ TestForCetMod
  \/ TestForRedscriptMod
  \/ TestForIniMod
  \/ TestForArchiveOnlyMod
  \/ TestForJsonMod
  \/ TestAnyOtherModFallback
  \/ InstallCore
  \/ InstallRedCetMixedMod
  \/ InstallCetMod
  \/ InstallRedscriptMod
  \/ InstallRedscriptModFT
  \/ InstallIniMod
  \/ InstallArchiveOnlyMod
  \/ InstallArchiveOnlyModAsREDmod
  \/ InstallJsonMod
  \/ InstallAnyModWithBasicFixes

Spec == Init /\ [][Next]_vars

(***************************************************************************)
(* The host alone: it asks the detectors in its order and calls install    *)
(* only of the installer it matched, once.                                 *)
(***************************************************************************)
HostNext ==
  \/ Start
  \/ TestForCore
  \/ TestForRedCetMixedMod
  \/ TestForCetMod
  \/ TestForRedscriptMod
  \/ TestForIniMod
  \/ TestForArchiveOnlyMod
  \/ TestForJsonMod
  \/ TestAnyOtherModFallback
  \/ InstallCore
  \/ phase = "matched" /\ InstallRedCetMixedMod
  \/ phase = "matched" /\ InstallCetMod
  \/ phase = "matched" /\ InstallRedscriptMod
  \/ phase = "matched" /\ InstallIniMod
  \/ phase = "matched" /\ InstallArchiveOnlyMod
  \/ phase = "matched" /\ InstallJsonMod
  \/ phase = "matched" /\ InstallAnyModWithBasicFixes

SpecHost == Init /\ [][HostNext]_vars

(***************************************************************************)
(* Direct calls with a second run: install of an installer is called on a  *)
(* file list its detector accepts, and then once more on the same list.    *)
(***************************************************************************)
DirectNext ==
  \/ InstallRedCetMixedMod
  \/ InstallCetMod
  \/ InstallRedscriptMod
  \/ InstallRedscriptModFT
  \/ InstallIniMod
  \/ InstallArchiveOnlyMod
  \/ InstallArchiveOnlyModAsREDmod
  \/ InstallJsonMod
  \/ InstallAnyModWithBasicFixes

SpecDirect == Init /\ [][DirectNext]_vars

(***************************************************************************)
(* Properties                                                              *)
(***************************************************************************)
\* the installers whose detector answers supported for the list and game
supportedBy(fs, g) ==
  {i \in 1..Len(installers) : testSupported(installers[i], fs, g).supported}

\* the host is through with asking: it matched an installer, a detector
\* rejected, or none answered supported
asked == phase \in {"matched", "failed", "unsupported"}

\* C1, as stated: for the game cyberpunk2077 exactly one installer of the
\* pipeline reports supported for the file list.
C1_ExactlyOneSupported ==
  asked /\ gameId = GAME_ID => Cardinality(supportedBy(files, gameId)) = 1

\* C1, amended: for the game cyberpunk2077 at least one installer reports
\* supported for every file list: the Fallback always does.  More than one
\* may.
C1_AtLeastOneSupported ==
  asked /\ gameId = GAME_ID =>
    LET all == supportedBy(files, gameId)
    IN  /\ Cardinality(all) >= 1
        /\ Len(installers) \in all

\* the host matched an installer before the Fallback, and the Fallback's
\* detector answers supported for the same list
C1_Witness ==
  /\ gameId = GAME_ID
  /\ asked
  /\ phase = "matched"
  /\ selected < Len(installers)
  /\ Cardinality(supportedBy(files, gameId)) >= 2

\* C2: the installer selected is the first in pipeline order whose detector
\* answered supported: every installer before it was asked and declined, none
\* after it was asked, and install runs on the selected installer only.
C2_FirstSupportedIsSelected ==
  selected # 0 =>
    /\ answers[selected] = "supported"
    /\ \A j \in 1..(selected - 1) : answers[j] = "unsupported"
    /\ phase = "matched" =>
         /\ testSupported(installers[selected], files, gameId).supported
         /\ \A j \in 1..(selected - 1) :
              ~testSupported(installers[j], files, gameId).supported
    /\ \A j \in (selected + 1)..Len(installers) : answers[j] = "unasked"
    /\ phase = "installed" => /\ result.installer = installers[selected]
                              /\ first.installer = installers[selected]
                              /\ runs = 1

\* the host installed with an installer in the middle of the pipeline
C2_Witness ==
  /\ phase = "installed"
  /\ selected \in 6..(Len(installers) - 1)
  /\ result.installer = installers[selected]
  /\ Cardinality(supportedBy(files, gameId)) >= 2

\* C3, as stated: for a game other than cyberpunk2077 no installer of the
\* pipeline answers supported.
C3_SupportedOnlyForTheGame ==
  \A i \in 1..Len(installers) : answers[i] = "supported" => gameId = GAME_ID

\* the copy instructions of an instruction list
copies(instructions) == SelectSeq(instructions, LAMBDA i : i.type = "copy")

\* C4, as stated: no two copy instructions of a returned instruction list
\* have the same destination.
C4_DestinationsUnique ==
  result.status = "resolved" =>
    LET cs == copies(result.instructions)
    IN  \A i, j \in 1..Len(cs) : i # j => cs[i].destination # cs[j].destination

\* C5: the source of every copy instruction an install returns is one of the
\* files the install was given, also after the REDmod autoconversion.
C5_SourcesAreInputFiles ==
  LET cs == copies(result.instructions)
  IN  \A i \in 1..Len(cs) : cs[i].source \in Range(files)

\* the autoconversion moved an archive below mods\ and kept the file of the
\* list as its source
C5_Witness ==
  /\ result.installer = "ArchiveOnlyAsREDmod"
  /\ result.answer = FeatureEnabled
  /\ result.status = "resolved"
  /\ \E i \in 1..Len(result.instructions) :
       /\ result.instructions[i].type = "copy"
       /\ result.instructions[i].source \in Range(files)
       /\ IsPrefix(REDMOD_BASEDIR, result.instructions[i].destination)
       /\ ~IsPrefix(REDMOD_BASEDIR, result.instructions[i].source)

\* path p lies below the directory prefix
below(prefix, p) == Len(p) > Len(NonEmpty(prefix)) /\ IsPrefix(NonEmpty(prefix), p)

\* the directory prefixes the instructions of an installer may copy to
permittedPrefixes(installer, features) ==
  CASE installer = "ArchiveOnly" -> {ARCHIVE_ONLY_CANONICAL_PREFIX}
    [] installer = "ArchiveOnlyAsREDmod" ->
         IF features = FeatureEnabled
         THEN {<<"mods", modInfoTaggedAsAutoconverted(ModInfo).name>>}
         ELSE {ARCHIVE_ONLY_CANONICAL_PREFIX}
    [] installer = "INI" -> {INI_MOD_PATH, RESHADE_MOD_PATH}
    [] installer = "CET" -> {CET_MOD_CANONICAL_PATH_PREFIX, ARCHIVE_ONLY_CANONICAL_PREFIX}
    [] installer \in {"Redscript", "RedscriptFT"} ->
         {REDS_MOD_CANONICAL_PATH_PREFIX, ARCHIVE_ONLY_CANONICAL_PREFIX}
    [] installer = "RedCetMix" ->
         {REDS_MOD_CANONICAL_PATH_PREFIX, CET_MOD_CANONICAL_PATH_PREFIX,
          ARCHIVE_ONLY_CANONICAL_PREFIX}
    \* features is here what the modules' info.json files hold
    [] installer \in {"REDmod", "REDmodInMultitype"} ->
         {<<"mods", features[d].name>> : d \in {m \in DOMAIN features : features[m].valid}}

\* the installers whose kind has a canonical prefix
kindsWithPrefix ==
  {"ArchiveOnly", "ArchiveOnlyAsREDmod", "INI", "CET", "Redscript", "RedscriptFT", "RedCetMix",
   "REDmod", "REDmodInMultitype"}

\* every copy of the result goes below a prefix its installer permits
underPermittedPrefix ==
  LET cs == copies(result.instructions)
  IN  \A i \in 1..Len(cs) :
        \E P \in permittedPrefixes(result.installer, result.answer) :
          below(P, cs[i].destination)

\* C6, as stated: the copy destinations of ArchiveOnly lie below
\* archive\pc\mod\, those of INI below engine\config\platform\pc\ or
\* bin\x64\, those of CET and of Redscript below their own prefix or below
\* archive\pc\mod\, those of a REDmod below mods\<name>\.
C6_DestinationsAlwaysUnderCanonicalPrefix ==
  result.installer \in kindsWithPrefix => underPermittedPrefix

\* C6, amended: as stated, except for the instruction list the Redscript
\* installer returns when it could not settle on one layout, prompted, and
\* the user chose to go on with the fallback: that list copies every file to
\* its own path, wherever it lies.
C6_DestinationsUnderCanonicalPrefix ==
  result.installer \in kindsWithPrefix =>
    IF "promptToFallbackOrFail" \in result.dialogs
    THEN /\ result.installer = "RedscriptFT"
         /\ \A i \in 1..Len(result.instructions) :
              /\ result.instructions[i].type = "copy"
              /\ result.instructions[i].destination = result.instructions[i].source
         /\ {result.instructions[i].source : i \in 1..Len(result.instructions)} =
              IF result.status = "resolved"
              THEN {f \in Range(files) : ~endsWithSep(f)}
              ELSE {}
    ELSE underPermittedPrefix

\* an archive came from archive\pc\patch\ and goes below archive\pc\mod\
C6_Witness ==
  /\ result.installer = "ArchiveOnly"
  /\ result.status = "resolved"
  /\ \E i \in 1..Len(result.instructions) :
       /\ below(ARCHIVE_ONLY_TRADITIONAL_WRONG_PREFIX, result.instructions[i].source)
       /\ below(ARCHIVE_ONLY_CANONICAL_PREFIX, result.instructions[i].destination)

\* install of the installer on a file list, with the inputs beside the list
install(installer, fs, destinationPath, headed, answer) ==
  CASE installer \in CoreTypes -> installCore(fs, destinationPath)
    [] installer = "RedCetMix" -> installRedCetMixedMod(fs, destinationPath)
    [] installer = "CET" -> installCetMod(fs, destinationPath)
    [] installer = "Redscript" -> installRedscriptMod(fs, destinationPath)
    [] installer = "RedscriptFT" -> installRedscriptModFT(fs, destinationPath, answer)
    [] installer = "INI" -> installIniMod(fs, destinationPath, headed)
    [] installer = "ArchiveOnly" -> installArchiveOnlyMod(fs, destinationPath)
    [] installer = "ArchiveOnlyAsREDmod" ->
         installArchiveOnlyModAsREDmod(fs, destinationPath, answer)
    [] installer = "JSON" -> installJsonMod(fs, destinationPath)
    [] installer = "FallbackForOther" -> installAnyModWithBasicFixes(fs, destinationPath)

\* the file lists that are fs with two neighbouring paths exchanged; every
\* permutation of a list is a chain of such exchanges
exchanged(fs) ==
  {[fs EXCEPT ![i] = fs[i + 1], ![i + 1] = fs[i]] : i \in 1..(Len(fs) - 1)}

\* how often each element stands in the sequence
BagOf(s) == [x \in Range(s) |-> Cardinality({i \in 1..Len(s) : s[i] = x})]

\* what install of the last run returns for the list fs
again(fs) ==
  install(result.installer, fs, result.destinationPath, result.headed, result.answer)

\* C7, as stated: install returns the same instructions in the same order
\* for every two file lists that are permutations of each other.
C7_SameOrderForPermutations ==
  runs = 1 =>
    \A fs \in exchanged(files) : again(fs).instructions = result.instructions

\* the installers whose result does not hang on which file comes first
orderFree == {"CET", "Redscript", "RedscriptFT", "ArchiveOnly", "ArchiveOnlyAsREDmod",
              "JSON", "FallbackForOther"}

\* C7, amended: for file lists that are permutations of each other, install
\* of CET, Redscript, ArchiveOnly (also autoconverted), JSON and Fallback
\* ends alike, shows the same dialogs and returns the same instructions as a
\* multiset; their order follows the order of the list.
C7_SameBagForPermutations ==
  runs = 1 /\ result.installer \in orderFree =>
    \A fs \in exchanged(files) :
      LET r == again(fs)
      IN  /\ r.status = result.status
          /\ r.error = result.error
          /\ r.dialogs = result.dialogs
          /\ \/ r.instructions = result.instructions
             \/ BagOf(r.instructions) = BagOf(result.instructions)

\* an install returned two instructions which it returns the other way round
\* for the list with two paths exchanged
C7_Witness ==
  /\ runs = 1
  /\ result.installer \in orderFree
  /\ Len(result.instructions) >= 2
  /\ \E fs \in exchanged(files) :
       /\ again(fs).instructions # result.instructions
       /\ BagOf(again(fs).instructions) = BagOf(result.instructions)

\* status, instructions, error and dialogs of both runs are the same
sameOutcome ==
  /\ result.status = first.status
  /\ result.instructions = first.instructions
  /\ result.error = first.error
  /\ result.dialogs = first.dialogs

\* C8, as stated: two runs of install on the same file list and
\* destinationPath return the same instructions, whatever the user answers
\* to a prompt.
C8_SameResultWhateverTheAnswer ==
  runs = 2 /\ result.destinationPath = first.destinationPath /\ result.headed = first.headed
  => result.status = first.status /\ result.instructions = first.instructions

\* how many of the three Redscript layouts the list holds: a .reds file at
\* the top, one directly in r6\scripts, one directly in a subdirectory of
\* r6\scripts
redsLayoutsIn(fs) ==
  LET reds == {f \in Range(fs) : ~endsWithSep(f) /\ extname(f) = REDS_MOD_CANONICAL_EXTENSION}
      top == \E f \in reds : Len(f) = 1
      base == \E f \in reds : Len(f) = 3 /\ IsPrefix(REDS_MOD_CANONICAL_PATH_PREFIX, f)
      canon == \E f \in reds : Len(f) = 4 /\ IsPrefix(REDS_MOD_CANONICAL_PATH_PREFIX, f)
  IN  Cardinality({k \in {"top", "base", "canon"} :
                     \/ k = "top" /\ top
                     \/ k = "base" /\ base
                     \/ k = "canon" /\ canon})

\* run r of the Redscript installer asked the user and did what the answer
\* said: on proceed every file is copied to its own path, on cancel the
\* install is rejected
answerDecided(r) ==
  /\ "promptToFallbackOrFail" \in r.dialogs
  /\ IF r.answer = UserWantsToProceed
     THEN /\ r.status = "resolved"
          /\ Len(r.instructions) = Cardinality({f \in Range(files) : ~endsWithSep(f)})
          /\ {r.instructions[i] : i \in 1..Len(r.instructions)} =
               {copy(f, f) : f \in {g \in Range(files) : ~endsWithSep(g)}}
     ELSE r.status = "rejected" /\ r.instructions = <<>>

\* C8, amended: two runs of install on the same file list, destinationPath
\* and staged files return the same result when the user gives the same
\* answer to the prompt or when no prompt is shown.  The prompt is shown by
\* the Redscript installer exactly when the list does not hold exactly one of
\* the three Redscript layouts, and then the answer decides between the
\* fallback's copies and a rejected install.
C8_SameResultForSameAnswer ==
  /\ runs = 2
  /\ result.destinationPath = first.destinationPath
  /\ result.headed = first.headed
  => IF result.installer = "RedscriptFT" /\ redsLayoutsIn(files) # 1
     THEN /\ answerDecided(first)
          /\ answerDecided(result)
          /\ result.answer = first.answer => sameOutcome
     ELSE /\ "promptToFallbackOrFail" \notin first.dialogs \cup result.dialogs
          /\ sameOutcome

\* the second run got the other answer and no prompt was shown in either
C8_Witness ==
  /\ runs = 2
  /\ result.installer = "RedscriptFT"
  /\ result.answer # first.answer
  /\ "promptToFallbackOrFail" \notin first.dialogs
  /\ Len(result.instructions) > 0
  /\ sameOutcome

\* the JSON detector's two errors: an options.json outside r6\config\settings,
\* or a JSON file the game does not know
jsonLayoutError(fs) ==
  LET jsons == {f \in Range(fs) : toLowerCase(extname(f)) = JSON_FILE_EXT}
      hasOptions == \E f \in jsons : basename(f) = "options.json"
  IN  /\ jsons # {}
      /\ ~\E f \in Range(fs) : toLowerCase(basename(f)) = CET_MOD_CANONICAL_INIT_FILE
      /\ IF hasOptions
         THEN ~\E f \in jsons : IsPrefix(<<"r6", "config", "settings">>, dirname(f))
         ELSE \E f \in jsons : basename(f) \notin DOMAIN KNOWN_JSON_FILES

\* C9, as stated: no detector of the pipeline rejects; each resolves to
\* supported or not supported.
C9_DetectorsNeverReject ==
  /\ phase # "failed"
  /\ \A i \in 1..Len(installers) : answers[i] # "rejected"

\* C9, amended: the detectors of Red+CET, CET, Redscript, INI, ArchiveOnly
\* and Fallback resolve for every file list and game; the JSON detector
\* rejects exactly when the game is cyberpunk2077 and the list has one of its
\* two layout errors, and resolves otherwise.
C9_OnlyJsonLayoutErrorsReject ==
  \A i \in 1..Len(installers) :
    /\ installers[i] \notin CoreTypes \cup {"JSON"} =>
         /\ answers[i] # "rejected"
         /\ asked => testSupported(installers[i], files, gameId).outcome = "resolved"
    /\ installers[i] = "JSON" =>
         /\ answers[i] = "rejected" => gameId = GAME_ID /\ jsonLayoutError(files)
         /\ answers[i] \in {"supported", "unsupported"} =>
              ~(gameId = GAME_ID /\ jsonLayoutError(files))
         /\ asked =>
              (testSupported(installers[i], files, gameId).outcome = "rejected"
                 <=> (gameId = GAME_ID /\ jsonLayoutError(files)))

\* the JSON detector rejected a list, the detectors before it had resolved
C9_Witness ==
  /\ phase = "failed"
  /\ \E i \in 1..Len(installers) :
       /\ installers[i] = "JSON"
       /\ answers[i] = "rejected"
       /\ \A j \in 1..(i - 1) : answers[j] = "unsupported"

\* the files of the list that are no directory entries
regularFiles(fs) == SelectSeq(fs, LAMBDA f : ~endsWithSep(f))

\* C10, as stated: the Fallback detector reports supported always.
C10_FallbackAlwaysSupported ==
  answers[Len(installers)] \in {"unasked", "supported"}

\* C10, amended: the Fallback detector reports supported exactly when the
\* game is cyberpunk2077, whatever the file list; its install shows the
\* fallback-reached dialog and resolves with one copy to the same path for
\* every path of the list that is no directory entry, in the order of the
\* list, and with nothing else.
C10_FallbackCopiesVerbatim ==
  /\ asked =>
       /\ testAnyOtherModFallback(files, gameId).outcome = "resolved"
       /\ testAnyOtherModFallback(files, gameId).supported <=> gameId = GAME_ID
  /\ answers[Len(installers)] = "supported" => gameId = GAME_ID
  /\ answers[Len(installers)] = "unsupported" => gameId # GAME_ID
  /\ result.installer = "FallbackForOther" =>
       /\ result.status = "resolved"
       /\ "fallbackInstallerReachedErrorDialog" \in result.dialogs
       /\ Len(result.instructions) = Len(regularFiles(files))
       /\ \A i \in 1..Len(result.instructions) :
            result.instructions[i] = copy(regularFiles(files)[i], regularFiles(files)[i])

\* the pipeline came down to the Fallback, which installed a list holding a
\* directory entry beside a file
C10_Witness ==
  /\ phase = "installed"
  /\ selected = Len(installers)
  /\ result.installer = "FallbackForOther"
  /\ Len(result.instructions) >= 1
  /\ Len(result.instructions) < Len(files)

(***************************************************************************)
(* Direct calls.  The detectors and the install functions are exported and *)
(* take any file list: here each is called once on a list as it is, with   *)
(* no detector before an install.                                          *)
(***************************************************************************)
\* the file lists over a set of paths: no path twice
Lists(universe) ==
  UNION { {s \in [1..n -> universe] : \A i, j \in 1..n : i # j => s[i] # s[j]} :
          n \in 0..MaxFiles }

\* the paths the called lists are made of, by the kind of mod they belong to
CallUniverses ==
  { \* script and CET mods with their archives
    { <<"bin", "x64", "plugins", "cyber_engine_tweaks", "mods", "M", "init.lua">>,
      <<"bin", "x64", "plugins", "cyber_engine_tweaks", "mods", "M", "">>,
      <<"archive", "pc", "mod", "x.archive">>,
      <<"archive", "pc", "mod", "">>,
      <<"a.reds">>,
      <<"sub", "a.reds">>,
      <<"r6", "scripts", "a.reds">>,
      <<"r6", "scripts", "M", "a.reds">>,
      <<"r6", "scripts", "N", "a.reds">>,
      <<"readme.txt">> },
    \* archive and INI mods
    { <<"archive", "pc", "mod", "x.archive">>,
      <<"archive", "pc", "mod", "">>,
      <<"archive", "pc", "patch", "x.archive">>,
      <<"something", "Foo.archive">>,
      <<"something", "d", "x.archive">>,
      <<"readme.txt">>,
      <<"a.ini">>,
      <<"sub", "a.ini">>,
      <<"reshade-shaders", "readme.txt">> },
    \* JSON mods
    { <<"random", "options.json">>,
      <<"r6", "config", "settings", "options.json">>,
      <<"sub", "giweights.json">>,
      <<"sub", "bumpersSettings.json">>,
      <<"r6", "config", "bumpersSettings.json">>,
      <<"sub", "other.json">>,
      <<"sub", "init.lua">>,
      <<"readme.txt">> },
    \* REDmods
    { <<"mods", "M", "info.json">>,
      <<"mods", "M", "archives", "x.archive">>,
      <<"mods", "readme.txt">>,
      <<"M", "info.json">>,
      <<"M", "archives", "x.archive">>,
      <<"info.json">>,
      <<"archives", "x.archive">> } }

CallInit ==
  /\ files \in UNION {Lists(universe) : universe \in CallUniverses}
  /\ gameId = ""
  /\ phase = "idle"
  /\ answers = [i \in 1..Len(installers) |-> "unasked"]
  /\ selected = 0
  /\ runs = 0
  /\ first = NoResult
  /\ result = NoResult

\* the answer r of the detector of installer type, asked for game g
CallTest(type, r, g) ==
  /\ phase = "idle"
  /\ gameId' = g
  /\ result' = [NoResult EXCEPT
                  !.installer = type,
                  !.status = IF r.outcome = "rejected" THEN "rejected"
                             ELSE IF r.supported THEN "supported" ELSE "unsupported",
                  !.error = r.error]
  /\ phase' = "tested"
  /\ UNCHANGED <<files, answers, selected, runs, first>>

\* the result r of install of installer type
Call(type, r, destinationPath, headed, answer) ==
  /\ phase = "idle"
  /\ result' = Outcome(type, r, destinationPath, headed, answer)
  /\ first' = result'
  /\ runs' = 1
  /\ phase' = "installed"
  /\ UNCHANGED <<files, gameId, answers, selected>>

CallTestForJsonMod == \E g \in GameIds : CallTest("JSON", testForJsonMod(files, g), g)

CallInstallJsonMod ==
  Call("JSON", installJsonMod(files, DefaultDestination), DefaultDestination, {}, "")

CallInstallCetMod ==
  Call("CET", installCetMod(files, DefaultDestination), DefaultDestination, {}, "")

CallInstallRedscriptMod ==
  \E d \in Destinations : Call("Redscript", installRedscriptMod(files, d), d, {}, "")

CallInstallArchiveOnlyMod ==
  Call("ArchiveOnly", installArchiveOnlyMod(files, DefaultDestination),
       DefaultDestination, {}, "")

\* headed: the .ini files whose content starts like a section or a comment
CallInstallIniMod ==
  \E headed \in SUBSET Range(SelectSeq(files, IsIni)) :
    Call("INI", installIniMod(files, DefaultDestination, headed), DefaultDestination, headed, "")

\* testForREDmod takes the tree alone, whatever the game
CallTestForREDmod ==
  \E g \in GameIds : CallTest("REDmod", testForREDmod(fileTreeFromPaths(files)), g)

CallNext ==
  \/ CallTestForJsonMod
  \/ CallTestForREDmod
  \/ CallInstallCetMod
  \/ CallInstallRedscriptMod
  \/ CallInstallArchiveOnlyMod
  \/ CallInstallIniMod
  \/ CallInstallJsonMod

SpecCalls == CallInit /\ [][CallNext]_vars

\* C11, as stated: when the JSON detector answers supported for a list, every
\* options.json of the list lies under r6\config\settings\.
C11_EveryOptionsJsonInSettings ==
  result.installer = "JSON" /\ result.status = "supported" =>
    \A i \in 1..Len(files) :
      basename(files[i]) = "options.json" =>
        IsPrefix(<<"r6", "config", "settings">>, files[i])

\* C12, as stated: for the list of random\options.json alone the JSON detector
\* answers supported and the install function rejects.
C12_DetectorAcceptsInstallRejects ==
  files = << <<"random", "options.json">> >> /\ result.installer = "JSON" =>
    /\ phase = "tested" => result.status = "supported"
    /\ phase = "installed" => result.status = "rejected"

\* C12, amended: for the list of random\options.json alone the JSON detector
\* itself rejects with the message about the improperly located options.json
\* when asked for the game, and the install function, called on the list,
\* resolves with the one verbatim copy of the file.
C12_DetectorRejectsInstallCopies ==
  files = << <<"random", "options.json">> >> /\ result.installer = "JSON" =>
    /\ phase = "tested" /\ gameId = GAME_ID =>
         /\ result.status = "rejected"
         /\ result.error =
              "Improperly located options.json file found.  We don't know where it belongs."
    /\ phase = "installed" =>
         /\ result.status = "resolved"
         /\ result.instructions =
              << copy(<<"random", "options.json">>, <<"random", "options.json">>) >>

C12_Witness ==
  /\ files = << <<"random", "options.json">> >>
  /\ result.installer = "JSON"
  /\ phase = "installed"
  /\ result.status = "resolved"

\* the number of copy instructions from source to destination
copiesOf(instructions, source, destination) ==
  Cardinality({i \in 1..Len(instructions) :
                 instructions[i] = copy(source, destination)})

\* C13, as stated: called on a list with a file below the CET prefix,
\* installCetMod returns exactly one verbatim copy for each file below the CET
\* prefix and for each file below archive\pc\mod\ and nothing for any other
\* file; called on a list without a file below the CET prefix it rejects.
C13_CetAndArchivesCopiedOnce ==
  result.installer = "CET" /\ phase = "installed" =>
    LET fs == regularFiles(files)
        kept(f) == below(CET_MOD_CANONICAL_PATH_PREFIX, f) \/ below(ARCHIVE_ONLY_CANONICAL_PREFIX, f)
    IN  IF \E i \in 1..Len(fs) : below(CET_MOD_CANONICAL_PATH_PREFIX, fs[i])
        THEN /\ result.status = "resolved"
             /\ Len(result.instructions) =
                  Cardinality({i \in 1..Len(fs) : kept(fs[i])})
             /\ \A i \in 1..Len(fs) :
                  kept(fs[i]) => copiesOf(result.instructions, fs[i], fs[i]) = 1
        ELSE result.status = "rejected"

\* C13, amended: installCetMod rejects with its error exactly when the list
\* has no path, file or directory entry, below the CET prefix.  Otherwise it
\* resolves, every instruction is the verbatim copy of a file of the list
\* below the CET prefix or below archive\pc\mod\, every file below the CET
\* prefix has exactly one, and when the list holds the directory entry
\* archive\pc\mod\ every file below it has exactly one too.
C13_CetCopiedOnceArchivesWithTheirDirectory ==
  result.installer = "CET" /\ phase = "installed" =>
    LET fs == regularFiles(files)
        kept(f) == below(CET_MOD_CANONICAL_PATH_PREFIX, f) \/ below(ARCHIVE_ONLY_CANONICAL_PREFIX, f)
    IN  IF \E i \in 1..Len(files) : below(CET_MOD_CANONICAL_PATH_PREFIX, files[i])
        THEN /\ result.status = "resolved"
             /\ \A k \in 1..Len(result.instructions) :
                  \E i \in 1..Len(fs) :
                    kept(fs[i]) /\ result.instructions[k] = copy(fs[i], fs[i])
             /\ \A i \in 1..Len(fs) :
                  /\ copiesOf(result.instructions, fs[i], fs[i]) <= 1
                  /\ below(CET_MOD_CANONICAL_PATH_PREFIX, fs[i]) =>
                       copiesOf(result.instructions, fs[i], fs[i]) = 1
                  /\ ARCHIVE_ONLY_CANONICAL_PREFIX \in Range(files)
                       /\ below(ARCHIVE_ONLY_CANONICAL_PREFIX, fs[i]) =>
                       copiesOf(result.instructions, fs[i], fs[i]) = 1
        ELSE /\ result.status = "rejected"
             /\ result.error = "CET install but no CET files, should never get here"
             /\ result.instructions = <<>>

\* a CET file and an archive, listed with its directory, were both copied
C13_Witness ==
  /\ result.installer = "CET"
  /\ phase = "installed"
  /\ result.status = "resolved"
  /\ ARCHIVE_ONLY_CANONICAL_PREFIX \in Range(files)
  /\ copiesOf(result.instructions,
              <<"archive", "pc", "mod", "x.archive">>,
              <<"archive", "pc", "mod", "x.archive">>) = 1
  /\ \E i \in 1..Len(files) :
       /\ below(CET_MOD_CANONICAL_PATH_PREFIX, files[i])
       /\ copiesOf(result.instructions, files[i], files[i]) = 1

\* the place of installer type in the pipeline
indexOf(type) == CHOOSE i \in 1..Len(installers) : installers[i] = type

\* the list has a CET mod directory: a directory directly below the CET
\* prefix with an init.lua in it
hasCetModDir(fs) ==
  \E i \in 1..Len(fs) :
    /\ Len(fs[i]) >= Len(CET_MOD_CANONICAL_PATH_PREFIX) + 2
    /\ IsPrefix(CET_MOD_CANONICAL_PATH_PREFIX, fs[i])
    /\ fs[i][Len(CET_MOD_CANONICAL_PATH_PREFIX) + 2] = CET_MOD_CANONICAL_INIT_FILE

\* C14, as stated: for a list with a CET mod directory and no .reds file the
\* mixed detector declines and the installer the pipeline selects is CET.
C14_CetSelectedWithoutReds ==
  hasCetModDir(files) /\ allRedscriptFiles(files) = <<>> =>
    /\ answers[indexOf("RedCetMix")] # "supported"
    /\ selected # 0 => selected = indexOf("CET")

\* C14, amended: for a list with a CET mod directory and a .reds file the
\* mixed detector, once asked, answers supported and CET is never selected.
\* For a list with a CET mod directory and no .reds file the mixed detector
\* declines, and CET is the installer selected unless a core installer,
\* which stands before both, has taken the list.
C14_MixedBeforeCetAfterCore ==
  hasCetModDir(files) =>
    IF allRedscriptFiles(files) # <<>>
    THEN /\ selected # indexOf("CET")
         /\ answers[indexOf("RedCetMix")] \in {"unasked", "supported"}
         /\ answers[indexOf("CET")] = "unasked"
    ELSE /\ answers[indexOf("RedCetMix")] \in {"unasked", "unsupported"}
         /\ phase \notin {"failed", "unsupported"}
         /\ selected # 0 =>
              \/ selected = indexOf("CET")
              \/ installers[selected] \in CoreTypes
         /\ selected # 0
              /\ (\A type \in CoreTypes : ~testForCore(type, files, gameId).supported)
              => selected = indexOf("CET")

\* the pipeline passed the mixed detector and selected CET
C14_Witness ==
  /\ hasCetModDir(files)
  /\ allRedscriptFiles(files) = <<>>
  /\ answers[indexOf("RedCetMix")] = "unsupported"
  /\ selected = indexOf("CET")
  /\ phase = "installed"

\* the Redscript layouts present in a list: Toplevel for a .reds file at the
\* root, Basedir for one directly in r6\scripts, Canon for a direct
\* subdirectory of r6\scripts with a .reds file in it
redscriptLayoutsIn(fs) ==
  LET fileTree == fileTreeFromPaths(fs)
  IN  {l \in {"Toplevel", "Basedir", "Canon"} :
         CASE l = "Toplevel" -> dirWithSomeIn(FILETREE_ROOT, "matchRedscript", fileTree)
           [] l = "Basedir" ->
                dirWithSomeIn(REDS_MOD_CANONICAL_PATH_PREFIX, "matchRedscript", fileTree)
           [] l = "Canon" ->
                Len(findDirectSubdirsWithSome(REDS_MOD_CANONICAL_PATH_PREFIX,
                                              "matchRedscript", fileTree)) > 0}

\* C15, as stated: installRedscriptMod resolves with copy instructions only
\* when exactly one of the three layouts is present in the list, and rejects
\* when none or more than one is.
C15_ResolvesOnlyForOneLayout ==
  result.installer = "Redscript" /\ phase = "installed" =>
    /\ result.status = "resolved" => Cardinality(redscriptLayoutsIn(files)) = 1
    /\ Cardinality(redscriptLayoutsIn(files)) # 1 =>
         result.status = "rejected" /\ result.instructions = <<>>

\* where a script goes that is moved into the mod's own directory: the
\* directory has the name of the staging directory without ".installing"
redsDirOf(destinationPath, f) ==
  REDS_MOD_CANONICAL_PATH_PREFIX \o <<stripInstalling(basename(destinationPath)), basename(f)>>

\* C16, as stated: when installRedscriptMod resolves on a Basedir or Toplevel
\* list, every .reds file of the list is copied to
\* r6\scripts\<modName>\<basename>; on a Canon list every instruction keeps
\* the path; and in all three cases every file below archive\pc\mod\ is
\* copied verbatim.
C16_EveryRedsAndArchivePlaced ==
  result.installer = "Redscript" /\ phase = "installed" /\ result.status = "resolved" =>
    LET fs == regularFiles(files)
        layouts == redscriptLayoutsIn(files)
    IN  /\ layouts \in {{"Toplevel"}, {"Basedir"}} =>
             \A i \in 1..Len(fs) :
               matchRedscript(fs[i]) =>
                 copiesOf(result.instructions, fs[i],
                          redsDirOf(result.destinationPath, fs[i])) = 1
        /\ layouts = {"Canon"} =>
             \A k \in 1..Len(result.instructions) :
               result.instructions[k].destination = result.instructions[k].source
        /\ \A i \in 1..Len(fs) :
             below(ARCHIVE_ONLY_CANONICAL_PREFIX, fs[i]) =>
               copiesOf(result.instructions, fs[i], fs[i]) = 1

\* C16, amended: when installRedscriptMod resolves, every .reds file directly
\* at the root or directly in r6\scripts is copied once to
\* r6\scripts\<modName>\<basename>, modName being the basename of the
\* destination path without ".installing"; every file below the one
\* subdirectory of r6\scripts is copied once to its own path; every file below
\* archive\pc\mod\ is copied once to its own path when the list holds that
\* directory's entry; and there is no other instruction.
C16_DirectRedsMovedCanonAndArchivesKept ==
  result.installer = "Redscript" /\ phase = "installed" /\ result.status = "resolved" =>
    LET fs == regularFiles(files)
        moved(f) ==
          /\ matchRedscript(f)
          /\ dirname(f) \in {<<".">>, REDS_MOD_CANONICAL_PATH_PREFIX}
        subdirs == {f[3] : f \in {g \in Range(fs) :
                                    Len(g) > 3 /\ IsPrefix(REDS_MOD_CANONICAL_PATH_PREFIX, g)}}
        canon(f) ==
          /\ Len(f) > 3
          /\ IsPrefix(REDS_MOD_CANONICAL_PATH_PREFIX, f)
          /\ Cardinality(subdirs) = 1
        archive(f) == below(ARCHIVE_ONLY_CANONICAL_PREFIX, f)
    IN  /\ \A i \in 1..Len(fs) :
             /\ moved(fs[i]) =>
                  copiesOf(result.instructions, fs[i],
                           redsDirOf(result.destinationPath, fs[i])) = 1
             /\ canon(fs[i]) => copiesOf(result.instructions, fs[i], fs[i]) = 1
             /\ archive(fs[i]) /\ ARCHIVE_ONLY_CANONICAL_PREFIX \in Range(files) =>
                  copiesOf(result.instructions, fs[i], fs[i]) = 1
        /\ \A k \in 1..Len(result.instructions) :
             \E i \in 1..Len(fs) :
               \/ /\ moved(fs[i])
                  /\ result.instructions[k] =
                       copy(fs[i], redsDirOf(result.destinationPath, fs[i]))
               \/ /\ canon(fs[i]) \/ archive(fs[i])
                  /\ result.instructions[k] = copy(fs[i], fs[i])

\* a script from r6\scripts went into the directory named after the staging
\* directory, and an archive stayed where it was
C16_Witness ==
  /\ result.installer = "Redscript"
  /\ phase = "installed"
  /\ result.status = "resolved"
  /\ result.destinationPath = <<"staging", "MyMod.installing">>
  /\ copiesOf(result.instructions, <<"r6", "scripts", "a.reds">>,
              <<"r6", "scripts", "MyMod", "a.reds">>) = 1
  /\ copiesOf(result.instructions, <<"archive", "pc", "mod", "x.archive">>,
              <<"archive", "pc", "mod", "x.archive">>) = 1

\* the files of the list that are the source of some instruction
covered(instructions, fs) ==
  {f \in Range(regularFiles(fs)) :
     \E k \in 1..Len(instructions) : instructions[k].source = f}

\* C17, as stated: installArchiveOnlyMod resolves only if the instructions of
\* the chosen layout cover every file of the list, and rejects with
\* 'Conflicting layouts for Archive mod!' and the structure dialog whenever
\* they cover fewer.
C17_ResolvesOnlyWhenAllFilesCovered ==
  result.installer = "ArchiveOnly" /\ phase = "installed" =>
    /\ result.status = "resolved" =>
         covered(result.instructions, files) = Range(regularFiles(files))
    /\ LET chosen == useFirstMatchingLayoutForInstructions(fileTreeFromPaths(files)).instructions
       IN  chosen # <<>> /\ covered(chosen, files) # Range(regularFiles(files)) =>
             /\ result.status = "rejected"
             /\ result.error = "Conflicting layouts for Archive mod!"
             /\ result.dialogs = {"showArchiveStructureErrorDialog"}
             /\ result.instructions = <<>>

\* C18, as stated: for the list of something\Foo.archive and readme.txt
\* installArchiveOnlyMod resolves without the structure error and copies the
\* archive to archive\pc\mod\Foo.archive.
C18_OtherLayoutFlattensAndResolves ==
  /\ result.installer = "ArchiveOnly"
  /\ phase = "installed"
  /\ files = << <<"something", "Foo.archive">>, <<"readme.txt">> >>
  => /\ result.status = "resolved"
     /\ "showArchiveStructureErrorDialog" \notin result.dialogs
     /\ copiesOf(result.instructions, <<"something", "Foo.archive">>,
                 <<"archive", "pc", "mod", "Foo.archive">>) = 1

\* C18, amended: on a list with no file below archive\pc\mod\ or
\* archive\pc\patch\ every instruction installArchiveOnlyMod returns copies a
\* file to archive\pc\mod\ followed by the file's whole path.  The list of
\* something\Foo.archive alone resolves with the copy to
\* archive\pc\mod\something\Foo.archive and the warning about subdirectories;
\* with readme.txt beside it the function shows the structure error dialog
\* and rejects with 'Conflicting layouts for Archive mod!'.
C18_OtherLayoutKeepsPathAndRejectsStrayFiles ==
  result.installer = "ArchiveOnly" /\ phase = "installed" =>
    /\ ( /\ result.status = "resolved"
         /\ \A i \in 1..Len(files) :
              /\ ~IsPrefix(NonEmpty(ARCHIVE_ONLY_CANONICAL_PREFIX), files[i])
              /\ ~IsPrefix(NonEmpty(ARCHIVE_ONLY_TRADITIONAL_WRONG_PREFIX), files[i]) )
         => \A k \in 1..Len(result.instructions) :
              /\ result.instructions[k].type = "copy"
              /\ result.instructions[k].source \in Range(regularFiles(files))
              /\ result.instructions[k].destination =
                   <<"archive", "pc", "mod">> \o result.instructions[k].source
    /\ files = << <<"something", "Foo.archive">> >> =>
         /\ result.status = "resolved"
         /\ result.instructions =
              << copy(<<"something", "Foo.archive">>,
                      <<"archive", "pc", "mod", "something", "Foo.archive">>) >>
         /\ result.dialogs = {"showArchiveInstallWarning"}
    /\ Range(files) = { <<"something", "Foo.archive">>, <<"readme.txt">> } =>
         /\ result.status = "rejected"
         /\ result.error = "Conflicting layouts for Archive mod!"
         /\ result.dialogs = {"showArchiveStructureErrorDialog"}
         /\ result.instructions = <<>>

C18_Witness ==
  /\ result.installer = "ArchiveOnly"
  /\ phase = "installed"
  /\ files = << <<"something", "Foo.archive">>, <<"readme.txt">> >>
  /\ result.status = "rejected"
  /\ result.dialogs = {"showArchiveStructureErrorDialog"}

\* the instructions of installIniMod are those of a Reshade mod: every .ini
\* file goes to bin\x64\<basename> and every file with reshade-shaders in its
\* path to bin\x64\reshade-shaders\...
placedAsReshade(instructions, fs) ==
  LET inis == SelectSeq(fs, IsIni)
      shaders == SelectSeq(fs, LAMBDA f : includesShadersDir(f) /\ ~endsWithSep(f))
  IN  /\ Len(instructions) = Len(inis) + Len(shaders)
      /\ \A i \in 1..Len(inis) :
           copiesOf(instructions, inis[i], <<"bin", "x64", basename(inis[i])>>) >= 1
      /\ \A i \in 1..Len(shaders) :
           copiesOf(instructions, shaders[i],
                    <<"bin", "x64">> \o fromShadersDir(shaders[i])) >= 1

\* the instructions are those of a plain INI mod: every .ini file goes to
\* engine\config\platform\pc\<basename> and nothing else is copied
placedAsIni(instructions, fs) ==
  LET inis == SelectSeq(fs, IsIni)
  IN  /\ Len(instructions) = Len(inis)
      /\ \A i \in 1..Len(inis) :
           copiesOf(instructions, inis[i],
                    <<"engine", "config", "platform", "pc", basename(inis[i])>>) >= 1

\* C19, as stated: installIniMod treats the mod as Reshade exactly when the
\* content of the first .ini file of the list matches ^[\[#].+
C19_ReshadeWhenFirstIniMatches ==
  result.installer = "INI" /\ phase = "installed" /\ result.status = "resolved" =>
    IF SelectSeq(files, IsIni)[1] \in result.headed
    THEN placedAsReshade(result.instructions, files)
    ELSE placedAsIni(result.instructions, files)

\* C19, amended: installIniMod treats the mod as Reshade exactly when the
\* content of the first .ini file of the list does not match ^[\[#].+
C19_ReshadeWhenFirstIniDoesNotMatch ==
  result.installer = "INI" /\ phase = "installed" /\ result.status = "resolved" =>
    IF SelectSeq(files, IsIni)[1] \notin result.headed
    THEN placedAsReshade(result.instructions, files)
    ELSE placedAsIni(result.instructions, files)

\* a preset that does not start with a section, with a shader file beside it
\* and a second .ini file that does start with one
C19_Witness ==
  /\ result.installer = "INI"
  /\ phase = "installed"
  /\ result.status = "resolved"
  /\ files[1] = <<"a.ini">>
  /\ result.headed = { <<"sub", "a.ini">> }
  /\ copiesOf(result.instructions, <<"a.ini">>, <<"bin", "x64", "a.ini">>) = 1
  /\ copiesOf(result.instructions, <<"reshade-shaders", "readme.txt">>,
              <<"bin", "x64", "reshade-shaders", "readme.txt">>) = 1

\* directory d of the list has an info.json directly in it and one of the
\* subtype directories directly below it
looksLikeREDmod(fs, d) ==
  /\ \E i \in 1..Len(fs) : fs[i] = d \o <<"info.json">>
  /\ \E i \in 1..Len(fs) :
       /\ Len(NonEmpty(fs[i])) > Len(d) + 1 \/ (endsWithSep(fs[i]) /\ Len(NonEmpty(fs[i])) = Len(d) + 1)
       /\ IsPrefix(d, fs[i])
       /\ fs[i][Len(d) + 1] \in {"archives", "customSounds", "scripts", "tweaks"}

\* the directories directly below the root of the list
topDirs(fs) == {<<fs[i][1]>> : i \in {j \in 1..Len(fs) : Len(fs[j]) > 1}}

\* the directories directly below mods\
modDirs(fs) ==
  {<<"mods", fs[i][2]>> : i \in {j \in 1..Len(fs) : Len(fs[j]) > 2 /\ fs[j][1] = "mods"}}

\* C20, as stated: testForREDmod answers supported exactly when a direct
\* subdirectory of mods\ looks like a REDmod (Canon), or a direct subdirectory
\* of the root does (Named), or the root itself does (Toplevel).
C20_SupportedIffSomeLayoutValid ==
  result.installer = "REDmod" /\ phase = "tested" =>
    ( result.status = "supported" <=>
        \/ \E d \in modDirs(files) : looksLikeREDmod(files, d)
        \/ \E d \in topDirs(files) : looksLikeREDmod(files, d)
        \/ looksLikeREDmod(files, <<>>) )

\* C20, amended: testForREDmod answers supported exactly when the list has the
\* directory mods\ at all, whatever is in it, or a direct subdirectory of the
\* root looks like a REDmod (Named), or the root itself does (Toplevel); it
\* never rejects.
C20_SupportedIffModsDirOrLayoutValid ==
  result.installer = "REDmod" /\ phase = "tested" =>
    /\ result.status \in {"supported", "unsupported"}
    /\ result.status = "supported" <=>
         \/ \E i \in 1..Len(files) : Len(files[i]) > 1 /\ files[i][1] = "mods"
         \/ \E d \in topDirs(files) : looksLikeREDmod(files, d)
         \/ looksLikeREDmod(files, <<>>)

\* a list with mods\ and nothing of a REDmod in it was taken
C20_Witness ==
  /\ result.installer = "REDmod"
  /\ phase = "tested"
  /\ files = << <<"mods", "readme.txt">> >>
  /\ result.status = "supported"

(***************************************************************************)
(* Calls of the REDmod engine: installREDmod, the instructions REDmod      *)
(* gives to MultiType, and the autoconversion of an archive layout, each   *)
(* called once on a file list as it is.                                    *)
(***************************************************************************)
MaxModFiles == 4

\* the file lists over a set of paths: no path twice
ModLists(universe) ==
  UNION { {s \in [1..n -> universe] : \A i, j \in 1..n : i # j => s[i] # s[j]} :
          n \in 0..MaxModFiles }

REDmodUniverses ==
  { \* two modules in the Canon layout, with archives and sounds
    { <<"mods", "M", "info.json">>,
      <<"mods", "M", "customSounds", "s.wav">>,
      <<"mods", "N", "info.json">>,
      <<"mods", "N", "archives", "x.archive">>,
      <<"mods", "N", "readme.txt">>,
      <<"mods", "">> },
    \* one module with scripts and tweaks
    { <<"mods", "M", "info.json">>,
      <<"mods", "M", "scripts", "core", "a.script">>,
      <<"mods", "M", "scripts", "other", "a.script">>,
      <<"mods", "M", "scripts", "readme.txt">>,
      <<"mods", "M", "tweaks", "base", "gameplay", "static_data", "t.tweak">>,
      <<"mods", "M", "tweaks", "t.tweak">> },
    \* modules in the Canon, Named and Toplevel layouts side by side
    { <<"mods", "M", "info.json">>,
      <<"mods", "M", "archives", "x.archive">>,
      <<"N", "info.json">>,
      <<"N", "archives", "x.archive">>,
      <<"info.json">>,
      <<"archives", "x.archive">> },
    \* archive mods for the autoconversion
    { <<"archive", "pc", "mod", "x.archive">>,
      <<"archive", "pc", "mod", "sub", "x.archive">>,
      <<"archive", "pc", "mod", "readme.txt">>,
      <<"archive", "pc", "mod", "">>,
      <<"archive", "pc", "patch", "x.archive">>,
      <<"something", "Foo.archive">> } }

\* what the info.json of a module may hold
REDmodInfos ==
  { InvalidInfoJson,
    REDmodInfo("R", <<>>),
    REDmodInfo("R", <<"mod_skip">>),
    REDmodInfo("R", <<"mod_skip", "mod_sfx_2d">>) }

REDmodInit ==
  /\ files \in UNION {ModLists(universe) : universe \in REDmodUniverses}
  /\ gameId = ""
  /\ phase = "idle"
  /\ answers = [i \in 1..Len(installers) |-> "unasked"]
  /\ selected = 0
  /\ runs = 0
  /\ first = NoResult
  /\ result = NoResult

\* an Either as the result of a call
EitherResult(e) ==
  [status |-> IF e.left THEN "left" ELSE "right", instructions |-> e.instructions,
   error |-> e.error, dialogs |-> e.dialogs]

\* the result of a call that has returned its promise and waits for the
\* reads of info.json
Pending == [status |-> "pending", instructions |-> <<>>, error |-> "", dialogs |-> {}]

\* the layouts the pipeline of the pending call was given
allowedLayoutsOfCall ==
  IF result.installer = "REDmod" THEN allAllowedLayouts ELSE layoutsAllowedInMultitype

\* the module directories whose info.json the pending call reads
modDirsOfCall == Range(modDirsToRead(allowedLayoutsOfCall, fileTreeFromPaths(files)))

\* installREDmod up to its await: the reads of info.json are started and the
\* promise is returned
CallInstallREDmod ==
  /\ phase = "idle"
  /\ result' = Outcome("REDmod", Pending, DefaultDestination, {}, <<>>)
  /\ phase' = "awaiting"
  /\ UNCHANGED <<files, gameId, answers, selected, runs, first>>

\* redmodAllowedInstructionsForMultitype without mods\: right([]) is
\* returned before any await
CallRedmodAllowedInstructionsForMultitypeWithoutCanon ==
  /\ ~detectAllowedREDmodLayoutsForMultitype(fileTreeFromPaths(files))
  /\ Call("REDmodInMultitype",
          EitherResult(redmodAllowedInstructionsForMultitype(fileTreeFromPaths(files), <<>>)),
          DefaultDestination, {}, <<>>)

\* redmodAllowedInstructionsForMultitype with mods\, up to its await
CallRedmodAllowedInstructionsForMultitype ==
  /\ phase = "idle"
  /\ detectAllowedREDmodLayoutsForMultitype(fileTreeFromPaths(files))
  /\ result' = Outcome("REDmodInMultitype", Pending, DefaultDestination, {}, <<>>)
  /\ phase' = "awaiting"
  /\ UNCHANGED <<files, gameId, answers, selected, runs, first>>

\* the read of the info.json of one module completes, in any order, with
\* what the disk holds at that moment; the module's sub-layouts run in the
\* continuation of the read and show their dialogs
ReadInfoJson ==
  /\ phase = "awaiting"
  /\ \E relativeModDir \in modDirsOfCall \ DOMAIN result.answer, redmodInfo \in REDmodInfos :
       LET read == [d \in {relativeModDir} |-> redmodInfo]
       IN  result' =
             [result EXCEPT
                !.answer = [d \in DOMAIN @ \cup {relativeModDir} |->
                              IF d = relativeModDir THEN redmodInfo ELSE @[d]],
                !.dialogs = @ \cup singleModPipeline(relativeModDir, fileTreeFromPaths(files),
                                                     read).dialogs]
  /\ UNCHANGED <<files, gameId, phase, answers, selected, runs, first>>

\* the end of a pending call: every read has completed
Settle(r) ==
  /\ phase = "awaiting"
  /\ DOMAIN result.answer = modDirsOfCall
  /\ result' = Outcome(result.installer, r, DefaultDestination, {}, result.answer)
  /\ first' = result'
  /\ runs' = 1
  /\ phase' = "installed"
  /\ UNCHANGED <<files, gameId, answers, selected>>

\* installREDmod after its await: the warning and the rejection, or the
\* instructions
SettleInstallREDmod ==
  /\ result.installer = "REDmod"
  /\ Settle(installREDmod(fileTreeFromPaths(files), result.answer))

\* redmodAllowedInstructionsForMultitype after its await
SettleRedmodAllowedInstructionsForMultitype ==
  /\ result.installer = "REDmodInMultitype"
  /\ Settle(EitherResult(redmodAllowedInstructionsForMultitype(fileTreeFromPaths(files),
                                                              result.answer)))

\* the layouts an archive installer hands to the autoconversion
ArchiveKinds == {"Canon", "Heritage", "Other", "XL"}

\* the transformation is called with the instructions of an archive layout
\* of the list, under the kind the archive installer gave them
CallTransformToREDmodArchiveInstructions ==
  \E features \in {FeatureEnabled, FeatureDisabled}, kind \in ArchiveKinds :
    LET chosen == useFirstMatchingLayoutForInstructions(fileTreeFromPaths(files))
        originalInstructions == Layout(kind, chosen.instructions)
        transformed == transformToREDmodArchiveInstructions(features, ModInfo, originalInstructions)
    IN  /\ kind \in {chosen.kind, "XL"}
        /\ Call("REDmodAutoconversion",
                [status |-> "right", instructions |-> transformed.instructions,
                 error |-> "", dialogs |-> transformed.dialogs],
                DefaultDestination, {},
                [features |-> features, original |-> originalInstructions,
                 kind |-> transformed.kind])

REDmodNext ==
  \/ CallInstallREDmod
  \/ CallRedmodAllowedInstructionsForMultitypeWithoutCanon
  \/ CallRedmodAllowedInstructionsForMultitype
  \/ ReadInfoJson
  \/ SettleInstallREDmod
  \/ SettleRedmodAllowedInstructionsForMultitype
  \/ CallTransformToREDmodArchiveInstructions

SpecREDmod == REDmodInit /\ [][REDmodNext]_vars

\* every install of the model, called directly: those of the pipeline's
\* installers and those of the REDmod engine
InstallsInit == Init \/ REDmodInit

\* one call: an install of the pipeline's installers, or installREDmod or
\* redmodAllowedInstructionsForMultitype with the steps until it settles
InstallsNext ==
  \/ runs = 0 /\ DirectNext
  \/ CallInstallREDmod
  \/ CallRedmodAllowedInstructionsForMultitypeWithoutCanon
  \/ CallRedmodAllowedInstructionsForMultitype
  \/ ReadInfoJson
  \/ SettleInstallREDmod
  \/ SettleRedmodAllowedInstructionsForMultitype

SpecInstalls == InstallsInit /\ [][InstallsNext]_vars

\* the modules the REDmod pipeline went through in the call of the state,
\* with a readable info.json
modulesRead ==
  IF result.installer \in {"REDmod", "REDmodInMultitype"} /\ phase = "installed"
  THEN {d \in DOMAIN result.answer : result.answer[d].valid}
  ELSE {}

\* what the sub-layouts of module d are given
detesOf(d) == collectPathDetesForInstructions(d, result.answer[d], fileTreeFromPaths(files))

\* the files of the list under directory sub of module d with an extension of exts
filesOfKind(d, sub, exts) ==
  SelectSeq(files, LAMBDA f : /\ ~endsWithSep(f)
                              /\ Len(f) > Len(d) + 1
                              /\ SubSeq(f, 1, Len(d) + 1) = d \o sub
                              /\ extname(f) \in exts)

\* one copy for each file of fs, from module d to mods\<info.name>\ with the
\* path inside the module kept
movedToModule(d, fs) ==
  [i \in 1..Len(fs) |->
     copy(fs[i], <<"mods", result.answer[d].name>> \o SubSeq(fs[i], Len(d) + 1, Len(fs[i])))]

\* s occurs in t as a run of consecutive elements
IsRunOf(s, t) ==
  \E k \in 0..(Len(t) - Len(s)) : SubSeq(t, k + 1, k + Len(s)) = s

\* info.json of module d declares a sound whose type is not mod_skip
requiresSoundFiles(d) ==
  \E i \in 1..Len(result.answer[d].customSounds) : result.answer[d].customSounds[i] # "mod_skip"

\* C21: for every module of an installREDmod call, the customSounds
\* sub-validator fails exactly when "info.json declares a sound whose type is
\* not mod_skip" differs from "a sound file lies under customSounds\", and
\* then the install rejects; when the two agree it gives one copy for each
\* sound file, to mods\<info.name>\ with the relative path kept, and a
\* resolved install holds these copies.
C21_SoundsDeclaredIffPresent ==
  result.installer = "REDmod" /\ phase = "installed" =>
    \A d \in modulesRead :
      LET sounds == filesOfKind(d, <<"customSounds">>, {".wav"})
          r == customSoundLayoutAndValidation(detesOf(d))
      IN  /\ r.left <=> (requiresSoundFiles(d) # (Len(sounds) > 0))
          /\ r.left => result.status = "rejected" /\ result.instructions = <<>>
          /\ ~r.left => r.instructions = movedToModule(d, sounds)
          /\ result.status = "resolved" => IsRunOf(movedToModule(d, sounds), result.instructions)

\* a module that declares a sound and ships it was installed beside a module
\* without sounds
C21_Witness ==
  /\ result.installer = "REDmod"
  /\ result.status = "resolved"
  /\ Cardinality(modulesRead) = 2
  /\ \E d \in modulesRead :
       requiresSoundFiles(d) /\ Len(filesOfKind(d, <<"customSounds">>, {".wav"})) > 0
  /\ \E d \in modulesRead : ~requiresSoundFiles(d)

\* f lies under directory sub of module d
underModuleDir(d, sub, f) == Len(f) > Len(d) + Len(sub) /\ SubSeq(f, 1, Len(d) + Len(sub)) = d \o sub

\* the script files of module d outside the whitelisted script subdirectories
strayScripts(d) ==
  SelectSeq(filesOfKind(d, <<"scripts">>, {".script", ".ws"}),
            LAMBDA f : \A i \in 1..Len(REDMOD_SCRIPTS_VALID_SUBDIR_NAMES) :
                         ~underModuleDir(d, <<"scripts", REDMOD_SCRIPTS_VALID_SUBDIR_NAMES[i]>>, f))

\* the tweak files of module d outside the whitelisted tweak subdirectory
strayTweaks(d) ==
  SelectSeq(filesOfKind(d, <<"tweaks">>, {".tweak"}),
            LAMBDA f : ~underModuleDir(d, <<"tweaks", "base", "gameplay", "static_data">>, f))

\* C22: for every module of an installREDmod call, a script file under
\* scripts\ outside the whitelisted script subdirectories, or a tweak file
\* under tweaks\ outside the whitelisted tweak subdirectory, makes the
\* sub-validator fail and the install reject; when there is none, the
\* sub-validators give one copy for each script and each tweak file, to
\* mods\<info.name>\ with the relative path kept, and a resolved install
\* holds these copies.
C22_ScriptsAndTweaksInWhitelistedDirs ==
  result.installer = "REDmod" /\ phase = "installed" =>
    \A d \in modulesRead :
      LET scripts == filesOfKind(d, <<"scripts">>, {".script", ".ws"})
          tweaks == filesOfKind(d, <<"tweaks">>, {".tweak"})
          s == scriptLayoutAndValidation(detesOf(d))
          t == tweakLayoutAndValidation(detesOf(d))
      IN  /\ s.left <=> Len(strayScripts(d)) > 0
          /\ t.left <=> Len(strayTweaks(d)) > 0
          /\ s.left \/ t.left => result.status = "rejected" /\ result.instructions = <<>>
          /\ ~s.left => s.instructions = movedToModule(d, scripts)
          /\ ~t.left => t.instructions = movedToModule(d, tweaks)
          /\ result.status = "resolved" =>
               /\ IsRunOf(movedToModule(d, scripts), result.instructions)
               /\ IsRunOf(movedToModule(d, tweaks), result.instructions)

\* a module with a script and a tweak in their whitelisted directories was
\* installed
C22_Witness ==
  /\ result.installer = "REDmod"
  /\ result.status = "resolved"
  /\ \E d \in modulesRead :
       /\ Len(filesOfKind(d, <<"scripts">>, {".script", ".ws"})) > 0
       /\ Len(filesOfKind(d, <<"tweaks">>, {".tweak"})) > 0
       /\ \E i \in 1..Len(result.instructions) :
            result.instructions[i] =
              copy(<<"mods", "M", "scripts", "core", "a.script">>,
                   <<"mods", "R", "scripts", "core", "a.script">>)

\* the places of the mkdir instructions in a list
mkdirsIn(instructions) == {i \in 1..Len(instructions) : instructions[i].type = "mkdir"}

\* C23: a resolved installREDmod returns exactly one mkdir instruction, for
\* the modded-scripts directory, behind the copy instructions of all the
\* modules, however many modules there are; a rejected one returns no
\* instruction at all.
C23_OneMkdirAfterAllCopies ==
  result.installer = "REDmod" /\ phase = "installed" =>
    /\ result.status \in {"resolved", "rejected"}
    /\ result.status = "resolved" =>
         /\ mkdirsIn(result.instructions) = {Len(result.instructions)}
         /\ result.instructions[Len(result.instructions)] = mkdir(REDMOD_SCRIPTS_MODDED_DIR)
         /\ \A i \in 1..(Len(result.instructions) - 1) : result.instructions[i].type = "copy"
    /\ result.status = "rejected" => result.instructions = <<>>

\* two modules were installed in one call
C23_Witness ==
  /\ result.installer = "REDmod"
  /\ result.status = "resolved"
  /\ Cardinality(modulesRead) = 2
  /\ \A d \in modulesRead :
       \E i \in 1..Len(result.instructions) :
         result.instructions[i].type = "copy" /\ IsPrefix(d, result.instructions[i].source)

\* the destination of an archive copy, moved from archive\pc\mod\ to the
\* archives directory of the converted module
rewrittenToModule(destination) ==
  <<"mods", "X_autoconverted", "archives">> \o SubSeq(destination, 4, Len(destination))

\* C24, as stated: with the feature enabled and a kind other than XL, the
\* result of the autoconversion has kind REDmodTransformed.Archive, holds
\* exactly one generatefile instruction, at mods\<taggedName>\info.json, and
\* for every copy of the original instructions exactly one copy with the
\* same source and the destination rewritten from archive\pc\mod\<rest> to
\* mods\<taggedName>\archives\<rest>.
C24_EveryCopyRewritten ==
  /\ result.installer = "REDmodAutoconversion"
  /\ result.answer.features = FeatureEnabled
  /\ result.answer.original.kind # "XL"
  => /\ result.answer.kind = "REDmodTransformedArchive"
     /\ Cardinality({i \in 1..Len(result.instructions) :
                       result.instructions[i].type = "generatefile"}) = 1
     /\ \E i \in 1..Len(result.instructions) :
          /\ result.instructions[i].type = "generatefile"
          /\ result.instructions[i].destination = <<"mods", "X_autoconverted", "info.json">>
     /\ \A k \in 1..Len(result.answer.original.instructions) :
          LET c == result.answer.original.instructions[k]
          IN  c.type = "copy" =>
                Cardinality({i \in 1..Len(result.instructions) :
                               /\ result.instructions[i].type = "copy"
                               /\ result.instructions[i].source = c.source}) = 1
                /\ \E i \in 1..Len(result.instructions) :
                     result.instructions[i] = copy(c.source, rewrittenToModule(c.destination))

\* the autoconversion was called with the feature not enabled or on an XL
\* layout
notConverting ==
  /\ result.installer = "REDmodAutoconversion"
  /\ result.answer.features # FeatureEnabled \/ result.answer.original.kind = "XL"

\* the result of the call is the original: kind and instructions
leftUnchanged ==
  /\ result.answer.kind = result.answer.original.kind
  /\ result.instructions = result.answer.original.instructions
  /\ \A i \in 1..Len(result.instructions) : result.instructions[i].type # "generatefile"

\* C25, as stated: when the feature is not enabled or the kind is XL the
\* instructions come back unchanged, the autoconverted notification is not
\* sent, and for an XL layout the not-autoconverted notification is sent.
C25_XLAlwaysNotified ==
  notConverting =>
    /\ leftUnchanged
    /\ "REDmodArchiveAutoconverted" \notin result.dialogs
    /\ result.answer.original.kind = "XL" => "REDmodArchiveNOTautoconverted" \in result.dialogs

\* C25, amended: when the feature is not enabled or the kind is XL the
\* instructions come back unchanged and the autoconverted notification is
\* not sent; the not-autoconverted notification is sent exactly when the
\* feature is enabled and the kind is XL, and with the feature not enabled
\* nothing is shown at all.
C25_XLNotifiedOnlyWhenEnabled ==
  notConverting =>
    /\ leftUnchanged
    /\ "REDmodArchiveAutoconverted" \notin result.dialogs
    /\ "REDmodArchiveNOTautoconverted" \in result.dialogs
         <=> result.answer.features = FeatureEnabled /\ result.answer.original.kind = "XL"
    /\ result.answer.features # FeatureEnabled => result.dialogs = {}

\* an XL layout with instructions went through with the feature disabled
C25_Witness ==
  /\ result.installer = "REDmodAutoconversion"
  /\ result.answer.features = FeatureDisabled
  /\ result.answer.original.kind = "XL"
  /\ Len(result.instructions) > 0
  /\ result.dialogs = {}

\* the list holds an .archive file under directory dir
archiveUnder(dir, fs) ==
  \E i \in 1..Len(fs) :
    /\ ~endsWithSep(fs[i])
    /\ Len(fs[i]) > Len(dir)
    /\ SubSeq(fs[i], 1, Len(dir)) = dir
    /\ extname(fs[i]) = ".archive"

\* the instructions are those of one layout of the given kind: Canon copies
\* files under archive\pc\mod\ to where they are, Heritage moves files under
\* archive\pc\patch\ to the same relative path under archive\pc\mod\, Other
\* puts files below archive\pc\mod\ with their whole path
ofOneLayout(kind, instructions) ==
  \A i \in 1..Len(instructions) :
    LET c == instructions[i]
    IN  /\ c.type = "copy"
        /\ kind = "Canon" =>
             /\ SubSeq(c.source, 1, 3) = <<"archive", "pc", "mod">>
             /\ c.destination = c.source
        /\ kind = "Heritage" =>
             /\ SubSeq(c.source, 1, 3) = <<"archive", "pc", "patch">>
             /\ c.destination = <<"archive", "pc", "mod">> \o SubSeq(c.source, 4, Len(c.source))
        /\ kind = "Other" => c.destination = <<"archive", "pc", "mod">> \o c.source

\* C26: installArchiveOnlyMod takes the instructions of the first of the
\* layouts Canon, Heritage, Other that gives any: Canon whenever an .archive
\* lies under archive\pc\mod\, else Heritage whenever one lies under
\* archive\pc\patch\, else Other; the instructions it works with, and those
\* it returns, are all of the chosen layout.
C26_FirstLayoutWithInstructionsWins ==
  result.installer = "ArchiveOnly" =>
    LET chosen == useFirstMatchingLayoutForInstructions(fileTreeFromPaths(files))
        kind == IF archiveUnder(<<"archive", "pc", "mod">>, files) THEN "Canon"
                ELSE IF archiveUnder(<<"archive", "pc", "patch">>, files) THEN "Heritage"
                ELSE "Other"
    IN  /\ chosen.kind = kind
        /\ kind \in {"Canon", "Heritage"} => Len(chosen.instructions) > 0
        /\ ofOneLayout(kind, chosen.instructions)
        /\ result.status = "resolved" => result.instructions = chosen.instructions
        /\ Len(chosen.instructions) = 0 => result.status = "rejected"

\* a list with archives under archive\pc\patch\ and elsewhere, none under
\* archive\pc\mod\, went through the installer
C26_Witness ==
  /\ result.installer = "ArchiveOnly"
  /\ ~archiveUnder(<<"archive", "pc", "mod">>, files)
  /\ archiveUnder(<<"archive", "pc", "patch">>, files)
  /\ archiveUnder(<<"something">>, files)
  /\ useFirstMatchingLayoutForInstructions(fileTreeFromPaths(files)).kind = "Heritage"

\* the failures the installers mark as not to be reached
ShouldNeverGetHere ==
  { "No Redscript found, should never get here.",
    "CET install but no CET files, should never get here",
    "Red + CET install but no CET files, should never get here",
    "ArchiveOnly installer failed to generate any instructions!" }

\* the detector of the installer whose install ran accepts the list
detectorAccepts ==
  CASE result.installer = "Redscript" -> testForRedscriptMod(files, GAME_ID).supported
    [] result.installer = "CET" -> testForCetMod(files, GAME_ID).supported
    [] result.installer = "RedCetMix" -> testForRedCetMixedMod(files, GAME_ID).supported
    [] result.installer = "ArchiveOnly" -> testForArchiveOnlyMod(files, GAME_ID).supported
    [] OTHER -> FALSE

\* C27, as stated: on a list its detector accepts, install of the
\* Redscript, CET, Red+CET and ArchiveOnly installers never ends in one of
\* its "should never get here" failures.
C27_AcceptedListsNeverFailToInstall ==
  detectorAccepts => result.error \notin ShouldNeverGetHere

\* C28, as stated: in the instructions installRedscriptMod returns, of
\* installers.ts and of installer.redscript.ts, each file of the list is
\* the source of at most one copy.
C28_EachFileCopiedAtMostOnce ==
  result.installer \in {"Redscript", "RedscriptFT"} =>
    \A k \in 1..Len(files) :
      Cardinality({i \in 1..Len(result.instructions) :
                     /\ result.instructions[i].type = "copy"
                     /\ result.instructions[i].source = files[k]}) <= 1

\* the names of the subdirectories of mods\ in the list
canonDirNames ==
  {files[i][2] : i \in {k \in 1..Len(files) : files[k][1] = "mods" /\ Len(files[k]) >= 3}}

\* mods\name looks like a REDmod: info.json directly inside and a directory
\* for one of the kinds of content
validCanonDir(name) ==
  /\ \E i \in 1..Len(files) : files[i] = <<"mods", name, "info.json">>
  /\ \E i \in 1..Len(files) :
       /\ Len(files[i]) >= 4
       /\ SubSeq(files[i], 1, 2) = <<"mods", name>>
       /\ files[i][3] \in REDMOD_SUBTYPE_DIRNAMES

\* the call chose the Canon layout and a subdirectory of mods\ is no REDmod
invalidCanonDir ==
  /\ \E i \in 1..Len(files) : files[i][1] = "mods" /\ Len(files[i]) >= 2
  /\ \E name \in canonDirNames : ~validCanonDir(name)

\* module d of the call fails: its info.json, its sounds, its scripts or its
\* tweaks
moduleFails(d) ==
  \/ ~result.answer[d].valid
  \/ requiresSoundFiles(d) # (Len(filesOfKind(d, <<"customSounds">>, {".wav"})) > 0)
  \/ Len(strayScripts(d)) > 0
  \/ Len(strayTweaks(d)) > 0

\* C29: installREDmod is all or nothing: when the info.json of a module
\* cannot be read or validated, or the customSounds, scripts or tweaks
\* sub-validator fails for a module, or a subdirectory of mods\ is no valid
\* REDmod in the Canon layout, the install shows the unrecoverable-structure
\* warning and rejects, and returns no instruction for any module, also not
\* for the modules that validated; it resolves when nothing of this happens
\* and a layout matches.  While the reads of info.json are under way the
\* install holds no instruction, whichever modules have validated so far.
C29_AllModulesOrNone ==
  /\ result.installer = "REDmod" /\ phase = "awaiting" =>
       /\ result.instructions = <<>>
       /\ "showWarningForUnrecoverableStructureError" \notin result.dialogs
  /\ result.installer = "REDmod" /\ phase = "installed" =>
       LET failing == invalidCanonDir \/ \E d \in DOMAIN result.answer : moduleFails(d)
       IN  /\ failing =>
             /\ result.status = "rejected"
             /\ result.instructions = <<>>
             /\ "showWarningForUnrecoverableStructureError" \in result.dialogs
           /\ ~failing /\ detectREDmodLayout(fileTreeFromPaths(files)) =>
                result.status = "resolved"

\* of two modules one validated and the other failed, and the install
\* rejected
C29_Witness ==
  /\ result.installer = "REDmod"
  /\ result.status = "rejected"
  /\ result.instructions = <<>>
  /\ Cardinality(DOMAIN result.answer) = 2
  /\ \E d \in DOMAIN result.answer : ~moduleFails(d)
  /\ \E d \in DOMAIN result.answer : result.answer[d].valid /\ moduleFails(d)

\* the list has something in mods\
canonPresent == \E i \in 1..Len(files) : files[i][1] = "mods" /\ Len(files[i]) >= 2

\* the directories at the top of the list with info.json directly inside and
\* a directory for one of the kinds of content
namedDirs ==
  {<<files[i][1]>> : i \in {k \in 1..Len(files) :
     /\ Len(files[k]) = 2
     /\ files[k][2] = "info.json"
     /\ \E j \in 1..Len(files) :
          /\ Len(files[j]) >= 3
          /\ files[j][1] = files[k][1]
          /\ files[j][2] \in REDMOD_SUBTYPE_DIRNAMES}}

\* info.json and a directory for one of the kinds of content lie at the top
\* of the list
toplevelPresent ==
  /\ \E i \in 1..Len(files) : files[i] = <<"info.json">>
  /\ \E j \in 1..Len(files) : Len(files[j]) >= 2 /\ files[j][1] \in REDMOD_SUBTYPE_DIRNAMES

\* the module directories of the first of Canon, Named, Toplevel the list
\* satisfies
firstLayoutDirs ==
  IF canonPresent THEN {<<"mods", name>> : name \in canonDirNames}
  ELSE IF namedDirs # {} THEN namedDirs
  ELSE IF toplevelPresent THEN {FILETREE_ROOT}
  ELSE {}

\* the instructions copy info.json of every directory of dirs and nothing
\* from outside these directories
copiesExactlyFrom(dirs) ==
  /\ \A d \in dirs : \E i \in 1..Len(result.instructions) :
       /\ result.instructions[i].type = "copy"
       /\ result.instructions[i].source = d \o <<"info.json">>
  /\ \A i \in 1..Len(result.instructions) :
       result.instructions[i].type = "copy" =>
         \E d \in dirs :
           /\ Len(result.instructions[i].source) > Len(d)
           /\ SubSeq(result.instructions[i].source, 1, Len(d)) = d

\* C30: installREDmod reads and installs the module directories of the first
\* of Canon, Named, Toplevel that the list satisfies, and only these: a file
\* that belongs only to a later layout gets no instruction.  Inside MultiType
\* only Canon counts: a list without mods\ gives an empty instruction list
\* that is no error, a list with mods\ gives instructions for the modules in
\* mods\ only.
C30_FirstMatchingLayoutOnly ==
  /\ result.installer = "REDmod" =>
       /\ DOMAIN result.answer \subseteq firstLayoutDirs
       /\ result.status = "resolved" =>
            /\ DOMAIN result.answer = firstLayoutDirs
            /\ copiesExactlyFrom(firstLayoutDirs)
  /\ result.installer = "REDmodInMultitype" /\ phase = "installed" =>
       IF canonPresent
       THEN result.status = "right" =>
              copiesExactlyFrom({<<"mods", name>> : name \in canonDirNames})
       ELSE result.status = "right" /\ result.instructions = <<>>

\* a list with a Canon module and a Named module was installed: the Canon
\* module has its instructions, the Named module has none
C30_Witness ==
  /\ result.installer = "REDmod"
  /\ result.status = "resolved"
  /\ canonPresent
  /\ namedDirs # {}
  /\ \E i \in 1..Len(result.instructions) :
       result.instructions[i].type = "copy" /\ result.instructions[i].source[1] = "mods"

====
